---- MODULE Spec2Model ----
(***************************************************************************)
(* Verification model of the landlock coordination core:                   *)
(*   - StateManager (region store, event log, global ranking table)        *)
(*   - InsuranceRiskAnalystAgent (scoring engine + report builder)         *)
(*   - AutomationPipeline.runFullPipeline (8 stage pipeline)               *)
(*   - CrewOrchestrator.runCrew (3 agent crew)                             *)
(*   - DataFetcher.fetchWFSPaginated (paginated fetch with a hard cap)     *)
(***************************************************************************)
EXTENDS Integers, Sequences, FiniteSets, TLC

\* ------------------------------------------------------------------------
\* Bounds of the model
\* ------------------------------------------------------------------------
\* total number of events emitted by the store operations of one behaviour
MaxEvents == 4

\* region ids the callers of the store use
RegionIds == {"kamloops", "vancouver"}

\* ------------------------------------------------------------------------
\* Values
\* ------------------------------------------------------------------------
\* a nullable field holds <<>> (null) or <<v>>
Null == <<>>

Some(v) == <<v>>

IsNull(x) == x = <<>>

\* IEEE NaN; every finite number the model computes is >= 0
NaN == -1

IsNaN(x) == x = NaN

\* null in the place of a number: JSON.stringify writes NaN as null
JsonNull == -2

\* a Date object holding the instant t
Date(t) == [isDate |-> TRUE, t |-> t]

\* JSON.stringify turns a Date into an ISO string; JSON.parse leaves the string
DateString(d) == [isDate |-> FALSE, t |-> d.t]

\* ------------------------------------------------------------------------
\* StateManager (region-state.ts)
\* ------------------------------------------------------------------------
RegionFields ==
  {"regionId", "regionName", "regionType", "hazardData", "zoningData", "riskScore",
   "reports", "agentConclusions", "lastAnalyzed", "dataQuality"}

initializeState(t) ==
  [regions |-> <<>>, events |-> <<>>, constraints |-> <<>>, planVariants |-> <<>>,
   globalRiskRankings |-> <<>>,
   pipelineStatus |-> [isRunning |-> FALSE, lastRun |-> Null, nextScheduledRun |-> Null,
                       activeJobCount |-> 0],
   version |-> 1, lastModified |-> Date(t)]

\* eventHistory, the subscribers and the id generator live outside this.state.
\* subscribers holds the keys of the Map in insertion order and notified the
\* callbacks invoked since a client last called the store, oldest first. stateSince is the id of the last
\* event emitted before this.state was assigned: the later events of
\* state.events are the objects eventHistory holds. handedOut is the snapshot
\* a client holds, with the objects it still shares with the store.
NewStateManager(t) ==
  [state |-> initializeState(t), eventHistory |-> <<>>, eventSeq |-> 0,
   subscribers |-> <<>>, notified |-> <<>>, stateSince |-> 0, handedOut |-> Null]

maxEventHistory == 1000

HasRegion(S, id) == \E i \in 1..Len(S.state.regions) : S.state.regions[i].regionId = id

RegionIndex(S, id) == CHOOSE i \in 1..Len(S.state.regions) : S.state.regions[i].regionId = id

getRegion(S, id) == S.state.regions[RegionIndex(S, id)]

\* Map values in insertion order
getAllRegions(S) == S.state.regions

createDefaultRegionState(id, partial, t) ==
  LET defaults ==
        [regionId |-> id,
         regionName |-> IF "regionName" \in DOMAIN partial THEN partial.regionName ELSE id,
         regionType |-> IF "regionType" \in DOMAIN partial THEN partial.regionType
                        ELSE "municipality",
         hazardData |-> [historicalFires |-> <<>>, fireStatistics |-> <<>>,
                         lastUpdated |-> Date(t)],
         zoningData |-> [zones |-> <<>>, developedPercentage |-> 0,
                         underdevelopedPercentage |-> 0, lastUpdated |-> Date(t)],
         riskScore |-> Null, reports |-> <<>>, agentConclusions |-> <<>>,
         lastAnalyzed |-> Null, dataQuality |-> Null]
  IN [f \in RegionFields |-> IF f \in DOMAIN partial THEN partial[f] ELSE defaults[f]]

emitEvent(S, type, regionId) ==
  LET fullEvent == [id |-> S.eventSeq + 1, type |-> type, regionId |-> regionId,
                    status |-> "pending"]
      hist == Append(S.eventHistory, fullEvent)
  IN [S EXCEPT !.state.events = Append(@, fullEvent),
               !.eventHistory = IF Len(hist) > maxEventHistory
                                THEN SubSeq(hist, Len(hist) - maxEventHistory + 1, Len(hist))
                                ELSE hist,
               !.eventSeq = @ + 1]

\* id of the event the last emitEvent returned
LastEventId(S) == S.eventSeq

\* status of the events with the id eventId set to status
WithStatus(events, eventId, status) ==
  [i \in 1..Len(events) |->
     IF events[i].id = eventId THEN [events[i] EXCEPT !.status = status] ELSE events[i]]

\* the event object is changed in place: eventHistory and a handed-out
\* snapshot show the change when they hold the same object
updateEventStatus(S, eventId, status) ==
  IF ~\E i \in 1..Len(S.state.events) : S.state.events[i].id = eventId THEN S
  ELSE LET S1 == [S EXCEPT !.state.events = WithStatus(@, eventId, status),
                           !.eventHistory = IF eventId > S.stateSince
                                            THEN WithStatus(@, eventId, status) ELSE @]
       IN IF IsNull(S.handedOut) \/ ~S.handedOut[1].sharedState THEN S1
          ELSE [S1 EXCEPT !.handedOut[1].seen.events = WithStatus(@, eventId, status)]

subscribe(S, subscriber) ==
  IF \E i \in 1..Len(S.subscribers) : S.subscribers[i] = subscriber THEN S
  ELSE [S EXCEPT !.subscribers = Append(@, subscriber)]

\* the function subscribe returned
unsubscribe(S, subscriber) ==
  [S EXCEPT !.subscribers = SelectSeq(@, LAMBDA other : other # subscriber)]

\* only the callback subscribed first is called
notifyFirstSubscriber(S) ==
  [S EXCEPT !.notified = @ \o SubSeq(S.subscribers, 1, IF Len(S.subscribers) = 0 THEN 0 ELSE 1)]

\* every callback of the Map is called once, in insertion order
notifySubscribers(S) == [S EXCEPT !.notified = @ \o S.subscribers]

RegionIdsOf(S) == {S.state.regions[i].regionId : i \in 1..Len(S.state.regions)}

\* a shallow copy: the Map and the arrays are new, the region objects, the
\* event objects and pipelineStatus are those of the store. taken keeps what
\* the snapshot showed when it was handed out, seen what it shows now.
getSnapshot(S) ==
  [S EXCEPT !.handedOut = Some([taken |-> S.state, seen |-> S.state,
                                sharedRegions |-> RegionIdsOf(S),
                                sharedLists |-> RegionIdsOf(S),
                                sharedState |-> TRUE])]

\* this.state is assigned a new object: nothing of it is in a snapshot
Unshared(handedOut) ==
  IF IsNull(handedOut) THEN handedOut
  ELSE Some([handedOut[1] EXCEPT !.sharedRegions = {}, !.sharedLists = {},
                                 !.sharedState = FALSE])

SeenIndex(S, id) ==
  CHOOSE i \in 1..Len(S.handedOut[1].seen.regions) :
    S.handedOut[1].seen.regions[i].regionId = id

\* region.field = value on the region object of the Map: a snapshot that
\* holds the object shows region
assignInPlace(S, id, region) ==
  IF IsNull(S.handedOut) \/ id \notin S.handedOut[1].sharedRegions THEN S
  ELSE [S EXCEPT !.handedOut[1].seen.regions[SeenIndex(S, id)] = region]

\* region.reports.push(..) / region.agentConclusions.push(..): the spread of
\* setRegion copies the reference, so every copy of the region holds the
\* array that is pushed to
pushInPlace(S, id, region) ==
  IF IsNull(S.handedOut) \/ id \notin S.handedOut[1].sharedLists THEN S
  ELSE [S EXCEPT !.handedOut[1].seen.regions[SeenIndex(S, id)].reports = region.reports,
                 !.handedOut[1].seen.regions[SeenIndex(S, id)].agentConclusions =
                   region.agentConclusions]

\* regions.set(id, updated) puts a new object into the Map
Replaced(handedOut, id) ==
  IF IsNull(handedOut) THEN handedOut
  ELSE Some([handedOut[1] EXCEPT !.sharedRegions = @ \ {id}])

\* the version is left as it is
keepVersion(version) == version

\* this.state.version++
bumpVersion(version) == version + 1

setRegion(S, id, partial, t) ==
  LET updated ==
        IF HasRegion(S, id)
        THEN LET existing == getRegion(S, id)
             IN [f \in RegionFields |-> IF f \in DOMAIN partial THEN partial[f] ELSE existing[f]]
        ELSE createDefaultRegionState(id, partial, t)
      regs == IF HasRegion(S, id)
              THEN [S.state.regions EXCEPT ![RegionIndex(S, id)] = updated]
              ELSE Append(S.state.regions, updated)
      S1 == [S EXCEPT !.state.regions = regs, !.state.version = bumpVersion(@),
                      !.state.lastModified = Date(t),
                      !.handedOut = Replaced(@, id)]
  IN notifySubscribers(emitEvent(S1, "state_updated", id))

updateRegionHazardData(S, id, fires, statistics, t) ==
  LET region == IF HasRegion(S, id) THEN getRegion(S, id)
                ELSE createDefaultRegionState(id, [regionId |-> id], t)
      region1 == [region EXCEPT !.hazardData =
                    [historicalFires |-> fires, fireStatistics |-> statistics,
                     lastUpdated |-> Date(t)]]
  IN setRegion(IF HasRegion(S, id) THEN assignInPlace(S, id, region1) ELSE S,
               id, region1, t)

CountStatus(zones, status) ==
  Cardinality({i \in 1..Len(zones) : zones[i].developmentStatus = status})

\* (n / total) * 100; the zone lists of the model have lengths that divide 100
Percentage(n, total) == (n * 100) \div total

updateRegionZoningData(S, id, zones, t) ==
  LET region == IF HasRegion(S, id) THEN getRegion(S, id)
                ELSE createDefaultRegionState(id, [regionId |-> id], t)
      developed == CountStatus(zones, "developed")
      underdeveloped == CountStatus(zones, "underdeveloped")
      total == IF Len(zones) = 0 THEN 1 ELSE Len(zones)
      region1 == [region EXCEPT !.zoningData =
                    [zones |-> zones,
                     developedPercentage |-> Percentage(developed, total),
                     underdevelopedPercentage |-> Percentage(underdeveloped, total),
                     lastUpdated |-> Date(t)]]
  IN setRegion(IF HasRegion(S, id) THEN assignInPlace(S, id, region1) ELSE S,
               id, region1, t)

\* riskScore?.overallScore || 0  (NaN, null and 0 are falsy)
ScoreOrZero(region) ==
  IF IsNull(region.riskScore) THEN 0
  ELSE IF region.riskScore[1].overallScore \in {NaN, JsonNull} THEN 0
  ELSE region.riskScore[1].overallScore

\* Array.prototype.sort is stable: an element goes behind every element that
\* does not sort after it
RECURSIVE InsertDesc(_, _)
InsertDesc(sorted, r) ==
  IF sorted = <<>> THEN <<r>>
  ELSE IF ScoreOrZero(Head(sorted)) >= ScoreOrZero(r)
       THEN <<Head(sorted)>> \o InsertDesc(Tail(sorted), r)
       ELSE <<r>> \o sorted

\* a sort that puts an element before the elements it ties with
RECURSIVE InsertBeforeTies(_, _)
InsertBeforeTies(sorted, r) ==
  IF sorted = <<>> THEN <<r>>
  ELSE IF ScoreOrZero(Head(sorted)) > ScoreOrZero(r)
       THEN <<Head(sorted)>> \o InsertBeforeTies(Tail(sorted), r)
       ELSE <<r>> \o sorted

RECURSIVE SortDescTiesReversed(_)
SortDescTiesReversed(rs) ==
  IF rs = <<>> THEN <<>>
  ELSE InsertBeforeTies(SortDescTiesReversed(SubSeq(rs, 1, Len(rs) - 1)), rs[Len(rs)])

RECURSIVE SortDesc(_)
SortDesc(rs) ==
  IF rs = <<>> THEN <<>>
  ELSE InsertDesc(SortDesc(SubSeq(rs, 1, Len(rs) - 1)), rs[Len(rs)])

SelectScored(rs) == SelectSeq(rs, LAMBDA r : ~IsNull(r.riskScore))

updateGlobalRankings(S) ==
  LET regionsWithScores == SortDesc(SelectScored(getAllRegions(S)))
  IN [S EXCEPT !.state.globalRiskRankings =
        [i \in 1..Len(regionsWithScores) |->
           [regionId |-> regionsWithScores[i].regionId,
            regionName |-> regionsWithScores[i].regionName,
            rank |-> i,
            score |-> ScoreOrZero(regionsWithScores[i])]]]

\* a score for an unknown id creates its record
updateOrCreateRiskScore(S, id, score, t) ==
  LET known == IF HasRegion(S, id) THEN getRegion(S, id)
               ELSE createDefaultRegionState(id, [regionId |-> id], t)
      region == [known EXCEPT !.riskScore = Some(score), !.lastAnalyzed = Some(Date(t))]
  IN updateGlobalRankings(setRegion(S, id, region, t))

updateRegionRiskScore(S, id, score, t) ==
  IF ~HasRegion(S, id) THEN S
  ELSE LET region == [getRegion(S, id) EXCEPT !.riskScore = Some(score),
                                              !.lastAnalyzed = Some(Date(t))]
       IN updateGlobalRankings(setRegion(assignInPlace(S, id, region), id, region, t))

addAgentConclusion(S, id, conclusion, t) ==
  IF ~HasRegion(S, id) THEN S
  ELSE LET region == [getRegion(S, id) EXCEPT !.agentConclusions = Append(@, conclusion)]
       IN setRegion(pushInPlace(S, id, region), id, region, t)

\* region.reports = [report]
addReportReplacingList(S, id, report, t) ==
  IF ~HasRegion(S, id) THEN S
  ELSE LET region == [getRegion(S, id) EXCEPT !.reports = <<report>>]
       IN setRegion(pushInPlace(S, id, region), id, region, t)

addReport(S, id, report, t) ==
  IF ~HasRegion(S, id) THEN S
  ELSE LET region == [getRegion(S, id) EXCEPT !.reports = Append(@, report)]
       IN setRegion(pushInPlace(S, id, region), id, region, t)

getGlobalRankings(S) == S.state.globalRiskRankings

\* the id is `con-${Date.now()}`
addConstraint(S, constraint, t) ==
  [S EXCEPT !.state.constraints =
     Append(@, [id |-> t, type |-> constraint.type, regionId |-> constraint.regionId])]

removeConstraint(S, constraintId) ==
  [S EXCEPT !.state.constraints = SelectSeq(@, LAMBDA c : c.id # constraintId)]

\* the id is `var-${Date.now()}`
addPlanVariant(S, variant, t) ==
  [S EXCEPT !.state.planVariants =
     Append(@, [id |-> t, name |-> variant.name, createdAt |-> Date(t)])]

getRecentEvents(S, count) ==
  SubSeq(S.state.events,
         IF Len(S.state.events) > count THEN Len(S.state.events) - count + 1 ELSE 1,
         Len(S.state.events))

getEventsByType(S, type) == SelectSeq(S.state.events, LAMBDA e : e.type = type)

\* pipelineStatus is changed in place: a snapshot that holds the object
\* shows the change
setPipelineRunning(S, isRunning, t) ==
  LET S1 == [S EXCEPT !.state.pipelineStatus.isRunning = isRunning,
                      !.state.pipelineStatus.lastRun =
                        IF isRunning THEN @ ELSE Some(Date(t))]
  IN IF IsNull(S.handedOut) \/ ~S.handedOut[1].sharedState THEN S1
     ELSE [S1 EXCEPT !.handedOut[1].seen.pipelineStatus = S1.state.pipelineStatus]

\* this.state.pipelineStatus.nextScheduledRun = date, in place as well
setNextScheduledRun(S, date) ==
  LET S1 == [S EXCEPT !.state.pipelineStatus.nextScheduledRun = Some(date)]
  IN IF IsNull(S.handedOut) \/ ~S.handedOut[1].sharedState THEN S1
     ELSE [S1 EXCEPT !.handedOut[1].seen.pipelineStatus = S1.state.pipelineStatus]

JsonNumber(x) == IF IsNaN(x) THEN JsonNull ELSE x

JsonDate(d) == IF d.isDate THEN DateString(d) ELSE d

JsonNullableDate(d) == IF IsNull(d) THEN d ELSE Some(JsonDate(d[1]))

JsonRegion(r) ==
  [r EXCEPT !.hazardData.lastUpdated = JsonDate(@),
            !.zoningData.lastUpdated = JsonDate(@),
            !.lastAnalyzed = JsonNullableDate(@),
            !.riskScore = IF IsNull(@) THEN @
                          ELSE Some([@[1] EXCEPT !.overallScore = JsonNumber(@)])]

\* the state JSON.parse(serialize()) yields: the entries of the Map in
\* insertion order, every Date as a string
serialize(S) ==
  [S.state EXCEPT !.regions = [i \in 1..Len(@) |-> JsonRegion(@[i])],
                  !.pipelineStatus.lastRun = JsonNullableDate(@),
                  !.pipelineStatus.nextScheduledRun = JsonNullableDate(@),
                  !.lastModified = JsonDate(@)]

\* this.state = { ...parsed, regions: new Map(parsed.regions) }
deserialize(S, json) ==
  [S EXCEPT !.state = json, !.stateSince = S.eventSeq, !.handedOut = Unshared(@)]

reset(S, t) ==
  notifySubscribers([S EXCEPT !.state = initializeState(t), !.stateSince = S.eventSeq,
                              !.handedOut = Unshared(@)])

\* ------------------------------------------------------------------------
\* Inputs: region facts
\* ------------------------------------------------------------------------
\* new Date().getFullYear()
CurrentYear == 2026

Perimeter(centre, area, year, cost, structures) ==
  [fireCentre |-> centre, areaBurnedHa |-> area, fireYear |-> year, cause |-> "lightning",
   estimatedCost |-> cost, structuresLost |-> structures]

Fire(area, year) == Perimeter("Test", area, year, 0, 0)

\* estimatedCost is counted in units of 100,000 dollars
CentreStat(centre, year, totalFires, cost, structures) ==
  [year |-> year, fireCentre |-> centre, totalFires |-> totalFires,
   estimatedCost |-> cost, structuresDestroyed |-> structures]

Stat(year, cost, structures) == CentreStat("Test", year, 1, cost, structures)

Zone(id, category, status, area) ==
  [id |-> id, zoningCategory |-> category, developmentStatus |-> status, areaHa |-> area]

ZoneLists ==
  {<<>>,
   <<Zone("z1", "residential_single", "developed", 100)>>,
   <<Zone("z1", "residential_multi", "developed", 50),
     Zone("z2", "agricultural", "underdeveloped", 50)>>}

\* ten recent major fires
TenFires == [i \in 1..10 |-> Fire(6000, 2024)]

\* (fires, statistics, zones) of a region handed to the analyst. The third
\* triple holds what calculateStatistics yields for perimeters without cost
\* figures: a yearly statistic whose estimatedCost is 0.
FactSets ==
  {<<<<>>, <<>>, <<>>>>,
   <<<<Fire(5000, 2023), Fire(3000, 2022)>>, <<Stat(2023, 50, 5)>>, <<>>>>,
   <<<<Fire(800, 2023)>>, <<Stat(2023, 0, 0)>>, <<>>>>,
   <<<<Fire(60000, 2024), Fire(2000, 2015), Fire(0, 2010)>>,
     <<Stat(2022, 2000, 150), Stat(2023, 100, 0)>>,
     <<Zone("z1", "residential_multi", "developed", 50),
       Zone("z2", "agricultural", "underdeveloped", 50)>>>>,
   <<TenFires, <<Stat(2024, 5000, 200)>>,
     <<Zone("z1", "residential_multi", "developed", 200)>>>>}

scoreToCategory(score) ==
  IF IsNaN(score) THEN "extreme"
  ELSE IF score < 20 THEN "low"
  ELSE IF score < 40 THEN "moderate"
  ELSE IF score < 60 THEN "high"
  ELSE IF score < 80 THEN "very_high"
  ELSE "extreme"

\* a RiskScore as a caller of updateRegionRiskScore builds it
RiskScoreOf(id, overall) ==
  [regionId |-> id, overallScore |-> overall, category |-> scoreToCategory(overall),
   components |-> [wildfireExposure |-> 70, historicalLoss |-> 60, vulnerabilityIndex |-> 80,
                   climateProjection |-> 65, mitigationFactor |-> 20],
   confidence |-> 85]

GivenScores == {25, 75}

\* (fires, statistics) pairs given to updateRegionHazardData by API clients
HazardInputs ==
  {<<<<Fire(5000, 2023), Fire(3000, 2022)>>, <<Stat(2023, 50, 5)>>>>,
   <<<<>>, <<Stat(2023, 0, 0)>>>>}

\* partial region states given to setRegion; the last one replaces the zones
\* of a region and keeps the percentages of a region without zones
Partials(id) ==
  {[regionId |-> id, regionName |-> "Named", regionType |-> "municipality"],
   [regionType |-> "fire_centre"],
   [riskScore |-> Some(RiskScoreOf(id, 50))],
   [zoningData |-> [zones |-> <<Zone("z1", "residential_single", "developed", 100)>>,
                    developedPercentage |-> 0, underdevelopedPercentage |-> 0,
                    lastUpdated |-> Date(0)]]}

\* ------------------------------------------------------------------------
\* InsuranceRiskAnalystAgent: scoring engine (insurance-risk-analyst.ts)
\* ------------------------------------------------------------------------
\* Non-negative rationals <<numerator, denominator>>. The source computes in
\* IEEE doubles; the inputs of the model keep every rounded sum away from
\* the .5 boundary, where a double could round the other way.
RECURSIVE GCD(_, _)
GCD(a, b) == IF b = 0 THEN a ELSE GCD(b, a % b)

\* the same quotient in lowest terms
RNorm(q) == LET g == GCD(q[1], q[2]) IN IF g = 0 THEN q ELSE <<q[1] \div g, q[2] \div g>>

RAdd(a, b) == RNorm(<<a[1] * b[2] + b[1] * a[2], a[2] * b[2]>>)

\* q * n / d
RScale(q, n, d) == RNorm(<<q[1] * n, q[2] * d>>)

\* Math.min(k, q)
RMin(k, q) == IF q[1] >= k * q[2] THEN <<k, 1>> ELSE q

\* Math.round(q): half up
RRound(q) == (2 * q[1] + q[2]) \div (2 * q[2])

RECURSIVE SumSeq(_)
SumSeq(ns) == IF ns = <<>> THEN 0 ELSE Head(ns) + SumSeq(Tail(ns))

\* seq.reduce((sum, x) => sum + F(x), 0)
SumOver(seq, F(_)) == SumSeq([i \in 1..Len(seq) |-> F(seq[i])])

CountOver(seq, P(_)) == Cardinality({i \in 1..Len(seq) : P(seq[i])})

AreaOf(f) == f.areaBurnedHa

CostOf(s) == s.estimatedCost

StructuresOf(s) == s.structuresDestroyed

IsRecent(f) == f.fireYear >= CurrentYear - 5

IsOld(f) == f.fireYear < CurrentYear - 5

IsMajor(f) == f.areaBurnedHa > 1000

assessWildfireExposure(fires) ==
  IF Len(fires) = 0
  THEN [totalFires |-> 0, totalAreaBurnedHa |-> 0, recentFires5yr |-> 0, majorFires |-> 0,
        exposureScore |-> 10, trend |-> "stable"]
  ELSE LET total == SumOver(fires, AreaOf)
           recent == CountOver(fires, IsRecent)
           major == CountOver(fires, IsMajor)
           areaScore == RMin(40, <<total * 40, 50000>>)
           frequencyScore == RMin(30, <<recent * 30, 10>>)
           majorEventScore == RMin(30, <<major * 30, 5>>)
           oldFires == CountOver(fires, IsOld)
           oldOrOne == IF oldFires > 1 THEN oldFires ELSE 1
       IN [totalFires |-> Len(fires), totalAreaBurnedHa |-> total,
           recentFires5yr |-> recent, majorFires |-> major,
           exposureScore |-> RRound(RAdd(RAdd(areaScore, frequencyScore), majorEventScore)),
           trend |-> IF 10 * recent > 13 * oldOrOne THEN "increasing"
                     ELSE IF 10 * recent < 7 * oldOrOne THEN "decreasing"
                     ELSE "stable"]

\* the statistic of the peak year: the first one holding the largest cost
PeakCost(statistics) ==
  LET costs == {statistics[i].estimatedCost : i \in 1..Len(statistics)}
  IN CHOOSE c \in costs : \A d \in costs : d <= c

\* concentrationScore = Math.min(20, (peakLossAmount / totalSuppresionCost) * 40);
\* with every cost 0 the quotient is 0 / 0 = NaN and Math.min(20, NaN) is NaN,
\* kept as the quotient <<0, 0>>
ConcentrationScore(peak, total) ==
  IF total = 0 THEN <<0, 0>> ELSE RMin(20, <<peak * 40, total>>)

\* costs are counted in units of 100,000 dollars: averageAnnualCost / 10,000,000 * 50
\* is total / (2 * n)
analyzeHistoricalLosses(statistics) ==
  IF Len(statistics) = 0
  THEN [totalSuppresionCost |-> 0, averageAnnualCost |-> <<0, 1>>,
        totalStructuresDestroyed |-> 0, peakLossAmount |-> 0, lossScore |-> 15]
  ELSE LET total == SumOver(statistics, CostOf)
           structures == SumOver(statistics, StructuresOf)
           peak == PeakCost(statistics)
           costScore == RMin(50, <<total, 2 * Len(statistics)>>)
           structureScore == RMin(30, <<structures * 30, 100>>)
           concentrationScore == ConcentrationScore(peak, total)
       IN [totalSuppresionCost |-> total,
           averageAnnualCost |-> <<total, Len(statistics)>>,
           totalStructuresDestroyed |-> structures, peakLossAmount |-> peak,
           lossScore |-> IF concentrationScore[2] = 0 THEN NaN
                         ELSE RRound(RAdd(RAdd(costScore, structureScore), concentrationScore))]

\* valuePerHa in units of 100,000 dollars; an unknown category counts 100000 dollars
valuePerHa(category) ==
  CASE category = "residential_single" -> 150
    [] category = "residential_multi" -> 500
    [] category = "commercial" -> 800
    [] category = "industrial" -> 250
    [] category = "mixed_use" -> 600
    [] category = "agricultural" -> 5
    [] category = "parkland" -> 10
    [] category = "institutional" -> 400
    [] category = "rural" -> 2
    [] OTHER -> 1

IsDeveloped(z) == z.developmentStatus = "developed"

IsResidential(z) == z.zoningCategory \in {"residential_single", "residential_multi"}

ValueOf(z) == z.areaHa * valuePerHa(z.zoningCategory)

evaluateVulnerability(zones) ==
  IF Len(zones) = 0
  THEN [totalZones |-> 0, developedPercent |-> 0, residentialPercent |-> 0,
        estimatedExposureValue |-> 0, vulnerabilityScore |-> 20]
  ELSE LET developedPercent == RRound(<<CountOver(zones, IsDeveloped) * 100, Len(zones)>>)
           residentialPercent == RRound(<<CountOver(zones, IsResidential) * 100, Len(zones)>>)
           value == SumOver(zones, ValueOf)
           developmentScore == RMin(40, <<developedPercent * 40, 100>>)
           valueScore == RMin(40, <<value * 40, 100000>>)
           concentrationScore == RMin(20, <<residentialPercent * 20, 50>>)
       IN [totalZones |-> Len(zones), developedPercent |-> developedPercent,
           residentialPercent |-> residentialPercent, estimatedExposureValue |-> value,
           vulnerabilityScore |->
             RRound(RAdd(RAdd(developmentScore, valueScore), concentrationScore))]

\* in hundredths: starts at 0.5, capped at 0.95
calculateConfidence(exposure, loss, vulnerability) ==
  LET c == 50 + (IF exposure.totalFires > 10 THEN 15 ELSE 0)
              + (IF loss.totalSuppresionCost > 0 THEN 15 ELSE 0)
              + (IF vulnerability.totalZones > 50 THEN 10 ELSE 0)
              + (IF exposure.recentFires5yr > 0 THEN 10 ELSE 0)
  IN IF c > 95 THEN 95 ELSE c

\* the four components weigh the same
OverallScoreUnweighted(exposureScore, lossScore, vulnerabilityScore) ==
  IF IsNaN(exposureScore) \/ IsNaN(lossScore) \/ IsNaN(vulnerabilityScore) THEN NaN
  ELSE RRound(RMin(100, <<exposureScore + lossScore + vulnerabilityScore + 60, 4>>))

\* Math.round(Math.max(0, Math.min(100, weightedScore))); NaN goes through
\* Math.min, Math.max and Math.round unchanged
OverallScore(exposureScore, lossScore, vulnerabilityScore) ==
  IF IsNaN(exposureScore) \/ IsNaN(lossScore) \/ IsNaN(vulnerabilityScore) THEN NaN
  ELSE LET weighted == <<35 * exposureScore + 30 * lossScore + 25 * vulnerabilityScore
                           + 10 * 60, 100>>
       IN RRound(RMin(100, weighted))

calculateRiskScore(regionId, exposure, loss, vulnerability) ==
  LET overallScore ==
        OverallScore(exposure.exposureScore, loss.lossScore, vulnerability.vulnerabilityScore)
  IN [regionId |-> regionId,
      overallScore |-> overallScore,
      category |-> scoreToCategory(overallScore),
      components |-> [wildfireExposure |-> exposure.exposureScore,
                      historicalLoss |-> loss.lossScore,
                      vulnerabilityIndex |-> vulnerability.vulnerabilityScore,
                      climateProjection |-> 60, mitigationFactor |-> 20],
      confidence |-> calculateConfidence(exposure, loss, vulnerability)]

\* number of recommendations of the report: NaN > 50 is false
generateRecommendations(riskScore) ==
  LET c == riskScore.components
      n == (IF c.wildfireExposure > 60 THEN 3 ELSE 0)
           + (IF ~IsNaN(c.historicalLoss) /\ c.historicalLoss > 50 THEN 2 ELSE 0)
           + (IF c.vulnerabilityIndex > 60 THEN 2 ELSE 0) + 3
  IN IF n > 10 THEN 10 ELSE n

\* the four scenarios, in order
projectFutureCosts(regionId) ==
  [i \in 1..4 |->
     [regionId |-> regionId,
      scenario |-> <<"baseline", "moderate_climate", "severe_climate", "development_growth">>[i]]]

generateRiskReport(S, region, riskScore, projections) ==
  [regionId |-> region.regionId,
   regionName |-> region.regionName,
   riskScore |-> riskScore,
   rankings |-> SelectSeq(getGlobalRankings(S), LAMBDA r : r.regionId = region.regionId),
   projections |-> projections,
   recoveryScenarios |-> 4,
   recommendations |-> generateRecommendations(riskScore)]

\* ------------------------------------------------------------------------
\* State
\* ------------------------------------------------------------------------
VARIABLES
  stateManager,   \* the StateManager singleton
  now,            \* the clock read by new Date() / Date.now()
  agent,          \* the InsuranceRiskAnalystAgent instance
  arrays,         \* the arrays the agent's conclusions field has referred to
  calls,          \* one frame per analyzeRegion invocation, in call order
  pipeline,       \* the AutomationPipeline instance and its run in progress
  crew,           \* the CrewOrchestrator's agents and its run in progress
  fetch,          \* the fetchWFSPaginated call in progress
  client          \* the last calls of an API client and what they returned

storeVars == <<stateManager, now>>

analystVars == <<agent, arrays, calls>>

vars == <<stateManager, now, agent, arrays, calls, pipeline, crew, fetch, client>>

StoreInit ==
  /\ stateManager = NewStateManager(0)
  /\ now = 0

\* private conclusions: AgentConclusion[] = []; the field refers to arrays[1]
AnalystInit ==
  /\ agent = [conclusions |-> 1, messageHistory |-> <<>>, currentTask |-> "none"]
  /\ arrays = <<<<>>>>
  /\ calls = <<>>

CanEmit == stateManager.eventSeq < MaxEvents

\* ------------------------------------------------------------------------
\* Store operations as called by API clients
\* ------------------------------------------------------------------------
SetRegion ==
  /\ CanEmit
  /\ \E id \in RegionIds : \E partial \in Partials(id) :
       stateManager' = setRegion(stateManager, id, partial, now)
  /\ UNCHANGED <<now, analystVars, pipeline, crew, fetch, client>>

UpdateRegionHazardData ==
  /\ CanEmit
  /\ \E id \in RegionIds : \E h \in HazardInputs :
       stateManager' = updateRegionHazardData(stateManager, id, h[1], h[2], now)
  /\ UNCHANGED <<now, analystVars, pipeline, crew, fetch, client>>

UpdateRegionZoningData ==
  /\ CanEmit
  /\ \E id \in RegionIds : \E zones \in ZoneLists :
       stateManager' = updateRegionZoningData(stateManager, id, zones, now)
  /\ UNCHANGED <<now, analystVars, pipeline, crew, fetch, client>>

UpdateRegionRiskScore ==
  /\ CanEmit
  /\ \E id \in RegionIds : \E o \in GivenScores :
       stateManager' = updateRegionRiskScore(stateManager, id, RiskScoreOf(id, o), now)
  /\ UNCHANGED <<now, analystVars, pipeline, crew, fetch, client>>

AddReport ==
  /\ CanEmit
  /\ \E id \in RegionIds :
       stateManager' = addReport(stateManager, id, [regionId |-> id, kind |-> "given"], now)
  /\ UNCHANGED <<now, analystVars, pipeline, crew, fetch, client>>

AddAgentConclusion ==
  /\ CanEmit
  /\ \E id \in RegionIds :
       stateManager' =
         addAgentConclusion(stateManager, id, [regionId |-> id, kind |-> "given"], now)
  /\ UNCHANGED <<now, analystVars, pipeline, crew, fetch, client>>

Reset ==
  /\ stateManager' = reset(stateManager, now)
  /\ UNCHANGED <<now, analystVars, pipeline, crew, fetch, client>>

Next ==
  \/ SetRegion
  \/ UpdateRegionHazardData
  \/ UpdateRegionZoningData
  \/ UpdateRegionRiskScore
  \/ AddReport
  \/ AddAgentConclusion
  \/ Reset

\* ------------------------------------------------------------------------
\* The store with subscribers, snapshots and persisted states
\* ------------------------------------------------------------------------
\* events emitted in one behaviour of a client session
MaxWrites == 2

\* constraints, and plan variants, added in one behaviour
MaxListed == 1

SubscriberIds == {"dashboard", "audit"}

\* what serialize() returned earlier: of a new store, and of a store whose
\* only write was setRegion('kamloops', { regionType: 'fire_centre' })
SavedStates ==
  {serialize(NewStateManager(0)),
   serialize(setRegion(NewStateManager(0), "kamloops", [regionType |-> "fire_centre"], 0))}

CanWrite == stateManager.eventSeq < MaxWrites

\* a client calls a method of the store: notified collects the callbacks
\* invoked during the call
Called(S) == [S EXCEPT !.notified = <<>>]

\* partial region states the clients of a session give to setRegion
ClientPartials(id) ==
  {[regionId |-> id, regionName |-> "Named", regionType |-> "municipality"],
   [regionType |-> "fire_centre"]}

ClientSetRegion ==
  /\ CanWrite
  /\ \E id \in RegionIds : \E partial \in ClientPartials(id) :
       stateManager' = setRegion(Called(stateManager), id, partial, now)
  /\ UNCHANGED <<now, analystVars, pipeline, crew, fetch, client>>

ClientUpdateRegionHazardData ==
  /\ CanWrite
  /\ \E id \in RegionIds :
       stateManager' = updateRegionHazardData(Called(stateManager), id,
                                              <<Fire(5000, 2023)>>, <<Stat(2023, 50, 5)>>, now)
  /\ UNCHANGED <<now, analystVars, pipeline, crew, fetch, client>>

ClientUpdateRegionZoningData ==
  /\ CanWrite
  /\ \E id \in RegionIds :
       stateManager' = updateRegionZoningData(Called(stateManager), id,
                         <<Zone("z1", "residential_multi", "developed", 50),
                           Zone("z2", "agricultural", "underdeveloped", 50)>>, now)
  /\ UNCHANGED <<now, analystVars, pipeline, crew, fetch, client>>

ClientUpdateRegionRiskScore ==
  /\ CanWrite
  /\ \E id \in RegionIds : \E o \in GivenScores :
       stateManager' = updateRegionRiskScore(Called(stateManager), id, RiskScoreOf(id, o), now)
  /\ UNCHANGED <<now, analystVars, pipeline, crew, fetch, client>>

ClientAddReport ==
  /\ CanWrite
  /\ \E id \in RegionIds :
       stateManager' = addReport(Called(stateManager), id,
                                 [regionId |-> id, kind |-> "given"], now)
  /\ UNCHANGED <<now, analystVars, pipeline, crew, fetch, client>>

ClientAddAgentConclusion ==
  /\ CanWrite
  /\ \E id \in RegionIds :
       stateManager' = addAgentConclusion(Called(stateManager), id,
                                          [regionId |-> id, kind |-> "given"], now)
  /\ UNCHANGED <<now, analystVars, pipeline, crew, fetch, client>>

ClientReset ==
  /\ stateManager' = reset(Called(stateManager), now)
  /\ UNCHANGED <<now, analystVars, pipeline, crew, fetch, client>>

Subscribe ==
  /\ \E subscriber \in SubscriberIds :
       stateManager' = subscribe(Called(stateManager), subscriber)
  /\ UNCHANGED <<now, analystVars, pipeline, crew, fetch, client>>

Unsubscribe ==
  /\ \E subscriber \in SubscriberIds :
       stateManager' = unsubscribe(Called(stateManager), subscriber)
  /\ UNCHANGED <<now, analystVars, pipeline, crew, fetch, client>>

Deserialize ==
  /\ \E json \in SavedStates : stateManager' = deserialize(Called(stateManager), json)
  /\ UNCHANGED <<now, analystVars, pipeline, crew, fetch, client>>

\* the client of the model takes one snapshot and keeps it
GetSnapshot ==
  /\ IsNull(stateManager.handedOut)
  /\ stateManager' = getSnapshot(Called(stateManager))
  /\ UNCHANGED <<now, analystVars, pipeline, crew, fetch, client>>

\* the client writes into what it was handed:
\* snapshot.regions.get(id).regionType = 'regional_district'. The region
\* object is the one of the store for as long as the store has not replaced it.
ChangeSnapshot ==
  /\ ~IsNull(stateManager.handedOut)
  /\ \E i \in 1..Len(stateManager.handedOut[1].seen.regions) :
       LET id == stateManager.handedOut[1].seen.regions[i].regionId
           S1 == [stateManager EXCEPT
                    !.handedOut[1].seen.regions[i].regionType = "regional_district"]
       IN stateManager' =
            IF id \in stateManager.handedOut[1].sharedRegions
            THEN [S1 EXCEPT !.state.regions[RegionIndex(stateManager, id)].regionType =
                              "regional_district"]
            ELSE S1
  /\ UNCHANGED <<now, analystVars, pipeline, crew, fetch, client>>

EmitEvent ==
  /\ CanWrite
  /\ stateManager' = emitEvent(Called(stateManager), "agent_execution_started", "")
  /\ UNCHANGED <<now, analystVars, pipeline, crew, fetch, client>>

\* the caller of emitEvent reports the outcome under the id it was given
UpdateEventStatus ==
  /\ stateManager.eventSeq > 0
  /\ stateManager' = updateEventStatus(Called(stateManager), LastEventId(stateManager),
                                       "completed")
  /\ UNCHANGED <<now, analystVars, pipeline, crew, fetch, client>>

AddConstraint ==
  /\ Len(stateManager.state.constraints) < MaxListed
  /\ stateManager' = addConstraint(Called(stateManager),
                                   [type |-> "budget_limit", regionId |-> "kamloops"], now)
  /\ UNCHANGED <<now, analystVars, pipeline, crew, fetch, client>>

RemoveConstraint ==
  /\ stateManager' = removeConstraint(Called(stateManager), now)
  /\ UNCHANGED <<now, analystVars, pipeline, crew, fetch, client>>

AddPlanVariant ==
  /\ Len(stateManager.state.planVariants) < MaxListed
  /\ stateManager' = addPlanVariant(Called(stateManager), [name |-> "baseline"], now)
  /\ UNCHANGED <<now, analystVars, pipeline, crew, fetch, client>>

SetPipelineRunning ==
  /\ \E isRunning \in BOOLEAN :
       stateManager' = setPipelineRunning(Called(stateManager), isRunning, now)
  /\ UNCHANGED <<now, analystVars, pipeline, crew, fetch, client>>

\* events emitted beyond the capacity of the event history in one behaviour
MaxOverflow == 2

\* the store after n calls of emitEvent({ type: 'agent_execution_started' })
AfterEvents(n) ==
  LET emitted == [i \in 1..n |-> [id |-> i, type |-> "agent_execution_started",
                                  regionId |-> "", status |-> "pending"]]
  IN [NewStateManager(0) EXCEPT !.state.events = emitted, !.eventHistory = emitted,
                                !.eventSeq = n]

\* a long-running process: the log is two events short of maxEventHistory
StoreInitNearCapacity ==
  /\ stateManager = AfterEvents(maxEventHistory - 2)
  /\ now = 0

EmitEventNearCapacity ==
  /\ stateManager.eventSeq < maxEventHistory + MaxOverflow
  /\ \E type \in {"agent_execution_started", "agent_execution_completed"} :
       stateManager' = emitEvent(Called(stateManager), type, "")
  /\ UNCHANGED <<now, analystVars, pipeline, crew, fetch, client>>

NextEvents ==
  \/ EmitEventNearCapacity
  \/ UpdateEventStatus

\* clients that write regions, subscribe, reset and restore
NextStore ==
  \/ ClientSetRegion
  \/ ClientUpdateRegionHazardData
  \/ ClientUpdateRegionZoningData
  \/ ClientUpdateRegionRiskScore
  \/ ClientReset
  \/ Subscribe
  \/ Unsubscribe
  \/ Deserialize

\* clients that use every mutator of the store
NextMutations ==
  \/ ClientSetRegion
  \/ ClientUpdateRegionRiskScore
  \/ ClientReset
  \/ Subscribe
  \/ Unsubscribe
  \/ Deserialize
  \/ EmitEvent
  \/ UpdateEventStatus
  \/ AddConstraint
  \/ RemoveConstraint
  \/ AddPlanVariant
  \/ SetPipelineRunning

\* clients that hold a snapshot while the store is written
NextSnapshot ==
  \/ ClientSetRegion
  \/ ClientUpdateRegionHazardData
  \/ ClientUpdateRegionZoningData
  \/ ClientUpdateRegionRiskScore
  \/ ClientAddReport
  \/ ClientAddAgentConclusion
  \/ GetSnapshot
  \/ ChangeSnapshot
  \/ EmitEvent
  \/ UpdateEventStatus
  \/ SetPipelineRunning

\* ------------------------------------------------------------------------
\* InsuranceRiskAnalystAgent.analyzeRegion, one action per stretch of code
\* between two awaits
\* ------------------------------------------------------------------------
\* number of analyzeRegion invocations of one behaviour
MaxRuns == 3

AnalystTasks ==
  <<"assess-wildfire-exposure", "analyze-historical-losses", "evaluate-vulnerability",
    "calculate-risk-score", "project-future-costs", "generate-risk-report">>

\* this.conclusions = []; this.messageHistory = [];
BeginInvocationKeepingConclusions(ag, heap) ==
  [agent |-> [ag EXCEPT !.messageHistory = <<>>], arrays |-> heap]

BeginInvocation(ag, heap) ==
  [agent |-> [ag EXCEPT !.conclusions = Len(heap) + 1, !.messageHistory = <<>>],
   arrays |-> Append(heap, <<>>)]

\* run is the number of the invocation that is executing: it stands for the
\* timestamp and the text of the conclusion
addConclusion(ag, heap, run) ==
  [heap EXCEPT ![ag.conclusions] =
     Append(@, [agentId |-> "insurance-risk-analyst", regionId |-> "",
                reasoning |-> ag.currentTask, run |-> run])]

\* setCurrentTask(task), the synchronous body of the task, addConclusion(...)
RunTask(k, task) ==
  /\ stateManager' = emitEvent(stateManager, "agent_execution_started", "")
  /\ agent' = [agent EXCEPT !.currentTask = AnalystTasks[task]]
  /\ arrays' = addConclusion(agent', arrays, k)

Finished(k) == calls[k].pc \in {"returned", "failed"}

NoCallInProgress == \A k \in 1..Len(calls) : Finished(k)

NewFrame(id) ==
  [regionId |-> id, pc |-> "failed", region |-> Null, exposure |-> Null, loss |-> Null,
   vulnerability |-> Null, riskScore |-> Null, projections |-> Null, report |-> Null,
   result |-> 0, error |-> "none"]

\* lines 281-298: reset, region lookup, first message, assessWildfireExposure
AnalyzeStartIn(S, id) ==
  LET k == Len(calls) + 1
      begun == BeginInvocation(agent, arrays)
  IN IF ~HasRegion(S, id)
     THEN /\ agent' = begun.agent
          /\ arrays' = begun.arrays
          /\ calls' = Append(calls, [NewFrame(id) EXCEPT !.error = "Region not found"])
          /\ stateManager' = S
     ELSE LET region == getRegion(S, id)
              message == [agentId |-> "insurance-risk-analyst", action |-> "analyze_region",
                          regionId |-> id, nextAgent |-> "mitigation-strategist", run |-> k]
              ag == [begun.agent EXCEPT !.messageHistory = Append(@, message),
                                        !.currentTask = AnalystTasks[1]]
          IN /\ stateManager' = emitEvent(S, "agent_execution_started", "")
             /\ agent' = ag
             /\ arrays' = addConclusion(ag, begun.arrays, k)
             /\ calls' = Append(calls,
                   [NewFrame(id) EXCEPT
                      !.pc = "losses", !.region = region,
                      !.exposure = assessWildfireExposure(region.hazardData.historicalFires)])

AnalyzeStart(id) == AnalyzeStartIn(stateManager, id)

\* line 299
AnalyzeLosses(k) ==
  /\ calls[k].pc = "losses"
  /\ RunTask(k, 2)
  /\ calls' = [calls EXCEPT ![k].pc = "vulnerability",
        ![k].loss = analyzeHistoricalLosses(calls[k].region.hazardData.fireStatistics)]

\* line 300
AnalyzeVulnerability(k) ==
  /\ calls[k].pc = "vulnerability"
  /\ RunTask(k, 3)
  /\ calls' = [calls EXCEPT ![k].pc = "score",
        ![k].vulnerability = evaluateVulnerability(calls[k].region.zoningData.zones)]

\* line 302
AnalyzeScore(k) ==
  /\ calls[k].pc = "score"
  /\ RunTask(k, 4)
  /\ calls' = [calls EXCEPT ![k].pc = "projections",
        ![k].riskScore = calculateRiskScore(calls[k].regionId, calls[k].exposure,
                                            calls[k].loss, calls[k].vulnerability)]

\* line 303
AnalyzeProjections(k) ==
  /\ calls[k].pc = "projections"
  /\ RunTask(k, 5)
  /\ calls' = [calls EXCEPT ![k].pc = "report",
        ![k].projections = projectFutureCosts(calls[k].regionId)]

\* line 304
AnalyzeReport(k) ==
  /\ calls[k].pc = "report"
  /\ RunTask(k, 6)
  /\ calls' = [calls EXCEPT ![k].pc = "commit",
        ![k].report = generateRiskReport(stateManager, calls[k].region, calls[k].riskScore,
                                         calls[k].projections)]

\* this.conclusions.forEach(c => stateManager.addAgentConclusion(regionId, c))
RECURSIVE AddConclusions(_, _, _, _)
AddConclusions(S, id, cs, t) ==
  IF cs = <<>> THEN S
  ELSE AddConclusions(addAgentConclusion(S, id, Head(cs), t), id, Tail(cs), t)

\* lines 306-310: the three store writes and the return value, which holds
\* the array the conclusions field refers to at this moment
AnalyzeCommit(k) ==
  /\ calls[k].pc = "commit"
  /\ LET id == calls[k].regionId
         S1 == updateRegionRiskScore(stateManager, id, calls[k].riskScore, now)
         S2 == addReport(S1, id, calls[k].report, now)
     IN stateManager' = AddConclusions(S2, id, arrays[agent.conclusions], now)
  /\ calls' = [calls EXCEPT ![k].pc = "returned", ![k].result = agent.conclusions]
  /\ UNCHANGED <<agent, arrays>>

\* a test or API client stores a region with its facts in one setRegion call
SeedRegionFrom(factSets) ==
  /\ NoCallInProgress
  /\ \E id \in RegionIds : \E facts \in factSets :
       /\ ~HasRegion(stateManager, id)
       /\ stateManager' = setRegion(stateManager, id,
            [regionId |-> id, regionName |-> "Named", regionType |-> "municipality",
             hazardData |-> [historicalFires |-> facts[1], fireStatistics |-> facts[2],
                             lastUpdated |-> Date(now)],
             zoningData |-> [zones |-> facts[3],
                             developedPercentage |->
                               Percentage(CountStatus(facts[3], "developed"),
                                          IF Len(facts[3]) = 0 THEN 1 ELSE Len(facts[3])),
                             underdevelopedPercentage |->
                               Percentage(CountStatus(facts[3], "underdeveloped"),
                                          IF Len(facts[3]) = 0 THEN 1 ELSE Len(facts[3])),
                             lastUpdated |-> Date(now)]], now)
  /\ UNCHANGED <<now, analystVars, pipeline, crew, fetch, client>>

SeedRegion == SeedRegionFrom(FactSets)

\* a region without facts, and one with a fire and a year without costs
FewFactSets ==
  {<<<<>>, <<>>, <<>>>>,
   <<<<Fire(800, 2023)>>, <<Stat(2023, 0, 0)>>, <<>>>>}

SeedRegionWithFewFacts == SeedRegionFrom(FewFactSets)

\* the caller awaits each invocation before it starts the next one
AnalyzeRegionCall ==
  /\ NoCallInProgress
  /\ Len(calls) < MaxRuns
  /\ \E id \in RegionIds : AnalyzeStart(id)
  /\ UNCHANGED <<now, pipeline, crew, fetch, client>>

AnalyzeRegionResume ==
  /\ \E k \in 1..Len(calls) :
       \/ AnalyzeLosses(k)
       \/ AnalyzeVulnerability(k)
       \/ AnalyzeScore(k)
       \/ AnalyzeProjections(k)
       \/ AnalyzeReport(k)
       \/ AnalyzeCommit(k)
  /\ UNCHANGED <<now, pipeline, crew, fetch, client>>

\* invocations of one behaviour that callers start without awaiting one another
MaxOverlapping == 2

\* a caller starts an invocation, whether or not another one is suspended at
\* an await (two requests, or a crew run and a request)
AnalyzeRegionOverlapping ==
  /\ Len(calls) < MaxOverlapping
  /\ \E id \in RegionIds : AnalyzeStart(id)
  /\ UNCHANGED <<now, pipeline, crew, fetch, client>>

\* invocations on the singleton that interleave at their awaits
NextInterleaved ==
  \/ SeedRegionWithFewFacts
  \/ AnalyzeRegionOverlapping
  \/ AnalyzeRegionResume

NextAnalyst ==
  \/ SeedRegion
  \/ AnalyzeRegionCall
  \/ AnalyzeRegionResume


\* ------------------------------------------------------------------------
\* AutomationPipeline (automation-pipeline.ts)
\* ------------------------------------------------------------------------
\* two of the six fire centres
BC_FIRE_CENTRES ==
  <<[id |-> "cariboo", name |-> "Cariboo Fire Centre"],
    [id |-> "kamloops", name |-> "Kamloops Fire Centre"]>>

\* config.targetRegions: two of the municipalities
targetRegions == <<"vancouver", "kamloops">>

minDataQualityScore == 70

\* the clock counts hours
maxStaleDataHours == 48

\* the clock stops at this hour
MaxClock == 49

\* p.fireCentre.toLowerCase().includes(centre.name.toLowerCase().split(' ')[0])
NamesCentre(fireCentre, centre) ==
  \/ fireCentre = "Cariboo Fire Centre" /\ centre.id = "cariboo"
  \/ fireCentre = "Kamloops Fire Centre" /\ centre.id = "kamloops"

\* what the ingestion collaborators answer
PerimeterAnswers ==
  {[threw |-> TRUE, perimeters |-> <<>>, isValid |-> TRUE],
   [threw |-> FALSE, isValid |-> FALSE,
    perimeters |-> <<Perimeter("Kamloops Fire Centre", 50000, 2024, 0, 0)>>]}

HistoricalAnswers ==
  {[threw |-> TRUE, perimeters |-> <<>>, isValid |-> TRUE],
   [threw |-> FALSE, isValid |-> TRUE,
    perimeters |-> <<Perimeter("Kamloops Fire Centre", 3000, 2023, 2500, 50),
                     Perimeter("Cariboo Fire Centre", 800, 2023, 0, 0),
                     Perimeter("Kamloops Fire Centre", 1000, 2023, 0, 0)>>]}

HotspotAnswers == {[threw |-> TRUE, hotspots |-> 0], [threw |-> FALSE, hotspots |-> 3]}

BoundaryAnswers ==
  {[threw |-> TRUE, municipalities |-> 0, districts |-> 0],
   [threw |-> FALSE, municipalities |-> 2, districts |-> 1]}

\* fetchMunicipalityZoning throws or answers with zones
ZoningAnswers ==
  {[threw |-> TRUE, found |-> FALSE, zones |-> <<>>],
   [threw |-> FALSE, found |-> TRUE,
    zones |-> <<Zone("z1", "residential_single", "developed", 100)>>]}

Executed(recordsProcessed, errors, warnings) ==
  [threw |-> FALSE, message |-> "", recordsProcessed |-> recordsProcessed,
   errors |-> errors, warnings |-> warnings]

Thrown(message) ==
  [threw |-> TRUE, message |-> message, recordsProcessed |-> 0, errors |-> <<>>,
   warnings |-> <<>>]

\* a warning counts as a failure
StageSucceededWithoutWarnings(errors, warnings) == errors = <<>> /\ warnings = <<>>

\* success: errors.length === 0
StageSucceeded(errors, warnings) == errors = <<>>

\* the StageResult runStage builds from what the executor did; by names the
\* caller of runStage
runStage(stage, executed, by) ==
  IF executed.threw
  THEN [stage |-> stage, success |-> FALSE, recordsProcessed |-> 0,
        errors |-> <<executed.message>>, warnings |-> <<>>, by |-> by]
  ELSE [stage |-> stage, success |-> StageSucceeded(executed.errors, executed.warnings),
        recordsProcessed |-> executed.recordsProcessed, errors |-> executed.errors,
        warnings |-> executed.warnings, by |-> by]

\* a failed stage leaves no record
PushResultOfSuccess(P, result) ==
  IF result.success THEN [P EXCEPT !.stageResults = Append(@, result)] ELSE P

\* this.stageResults.push(result)
PushResult(P, result) == [P EXCEPT !.stageResults = Append(@, result)]

RECURSIVE updateFireCentreStatesFrom(_, _, _, _)
updateFireCentreStatesFrom(S, perimeters, i, t) ==
  IF i > Len(BC_FIRE_CENTRES) THEN S
  ELSE LET centre == BC_FIRE_CENTRES[i]
           centreFires == SelectSeq(perimeters, LAMBDA p : NamesCentre(p.fireCentre, centre))
           S1 == setRegion(S, centre.id,
                   [regionId |-> centre.id, regionName |-> centre.name,
                    regionType |-> "fire_centre",
                    hazardData |-> [historicalFires |-> centreFires, fireStatistics |-> <<>>,
                                    lastUpdated |-> Date(t)]], t)
       IN updateFireCentreStatesFrom(S1, perimeters, i + 1, t)

updateFireCentreStates(S, perimeters, t) == updateFireCentreStatesFrom(S, perimeters, 1, t)

RECURSIVE updateFireCentreStatisticsFrom(_, _, _, _)
updateFireCentreStatisticsFrom(S, statistics, i, t) ==
  IF i > Len(BC_FIRE_CENTRES) THEN S
  ELSE LET centre == BC_FIRE_CENTRES[i]
           centreStats == SelectSeq(statistics, LAMBDA st : NamesCentre(st.fireCentre, centre))
           S1 == IF HasRegion(S, centre.id)
                 THEN setRegion(S, centre.id,
                        [getRegion(S, centre.id) EXCEPT !.hazardData.fireStatistics = centreStats],
                        t)
                 ELSE S
       IN updateFireCentreStatisticsFrom(S1, statistics, i + 1, t)

updateFireCentreStatistics(S, statistics, t) ==
  updateFireCentreStatisticsFrom(S, statistics, 1, t)

\* [...new Set(perimeters.map(p => p.fireYear))]: first occurrences, in order
RECURSIVE DistinctYears(_)
DistinctYears(perimeters) ==
  IF perimeters = <<>> THEN <<>>
  ELSE LET front == DistinctYears(SubSeq(perimeters, 1, Len(perimeters) - 1))
           year == perimeters[Len(perimeters)].fireYear
       IN IF \E i \in 1..Len(front) : front[i] = year THEN front ELSE Append(front, year)

\* one statistic per fire centre and year that has a perimeter, centres in
\* their order, years in theirs
calculateStatistics(perimeters) ==
  LET years == DistinctYears(perimeters)
      nYears == Len(years)
      keys == [k \in 1..(Len(BC_FIRE_CENTRES) * nYears) |->
                 [centre |-> BC_FIRE_CENTRES[((k - 1) \div nYears) + 1].name,
                  year |-> years[((k - 1) % nYears) + 1]]]
      Of(key) == SelectSeq(perimeters,
                   LAMBDA p : p.fireCentre = key.centre /\ p.fireYear = key.year)
      stats == [k \in 1..Len(keys) |->
                  CentreStat(keys[k].centre, keys[k].year, Len(Of(keys[k])),
                             SumSeq([i \in 1..Len(Of(keys[k])) |-> Of(keys[k])[i].estimatedCost]),
                             SumSeq([i \in 1..Len(Of(keys[k])) |-> Of(keys[k])[i].structuresLost]))]
  IN SelectSeq(stats, LAMBDA st : st.totalFires > 0)

\* validateRegionData of a region that exists; hazardData.lastUpdated.getTime()
\* is a TypeError when lastUpdated is not a Date
validateRegionData(region, t) ==
  IF ~region.hazardData.lastUpdated.isDate
  THEN [threw |-> TRUE, isValid |-> FALSE, dataQualityScore |-> 0]
  ELSE LET hazardAge == t - region.hazardData.lastUpdated.t
           score == 100 - (IF Len(region.hazardData.historicalFires) = 0 THEN 20 ELSE 0)
                        - (IF hazardAge > maxStaleDataHours THEN 10 ELSE 0)
                        - (IF Len(region.zoningData.zones) = 0 THEN 20 ELSE 0)
       IN [threw |-> FALSE, isValid |-> score >= minDataQualityScore,
           dataQualityScore |-> score]

\* the loop of validateAllData over the regions read at its start
RECURSIVE validateFrom(_, _, _, _, _, _)
validateFrom(S, regions, i, validRegions, warnings, t) ==
  IF i > Len(regions)
  THEN [store |-> emitEvent(S, "validation_completed", ""),
        executed |-> Executed(Len(regions), <<>>, warnings)]
  ELSE LET validation == validateRegionData(getRegion(S, regions[i].regionId), t)
       IN IF validation.threw
          THEN [store |-> S, executed |-> Thrown("lastUpdated.getTime is not a function")]
          ELSE validateFrom(
                 setRegion(S, regions[i].regionId,
                   [dataQuality |-> Some([isValid |-> validation.isValid,
                                          dataQualityScore |-> validation.dataQualityScore])], t),
                 regions, i + 1,
                 IF validation.isValid THEN validRegions + 1 ELSE validRegions,
                 IF ~validation.isValid /\ validation.dataQualityScore < minDataQualityScore
                 THEN Append(warnings, "Low data quality") ELSE warnings,
                 t)

validateAllData(S, t) == validateFrom(S, getAllRegions(S), 1, 0, <<>>, t)

calculateWildfireExposure(fires) ==
  IF Len(fires) = 0 THEN <<1, 10>>
  ELSE RAdd(RScale(RMin(1, RNorm(<<SumOver(fires, AreaOf), 100000>>)), 6, 10),
            RScale(RMin(1, RNorm(<<CountOver(fires, IsRecent), 20>>)), 4, 10))

\* costs in units of 100,000 dollars: totalCost / 500,000,000 is total / 5000
calculateHistoricalLoss(statistics) ==
  IF Len(statistics) = 0 THEN <<1, 10>>
  ELSE RAdd(RScale(RMin(1, RNorm(<<SumOver(statistics, CostOf), 5000>>)), 7, 10),
            RScale(RMin(1, RNorm(<<SumOver(statistics, StructuresOf), 500>>)), 3, 10))

calculateVulnerability(zones) ==
  IF Len(zones) = 0 THEN <<1, 2>>
  ELSE RScale(RNorm(<<CountOver(zones, IsDeveloped), Len(zones)>>), 8, 10)

Pipeline_scoreToCategory(score) ==
  IF score < 20 THEN "low"
  ELSE IF score < 40 THEN "moderate"
  ELSE IF score < 60 THEN "high"
  ELSE IF score < 80 THEN "very_high"
  ELSE "extreme"

\* AutomationPipeline.calculateRiskScore of a region that exists
Pipeline_calculateRiskScore(region) ==
  LET wildfireExposure == calculateWildfireExposure(region.hazardData.historicalFires)
      historicalLoss == calculateHistoricalLoss(region.hazardData.fireStatistics)
      vulnerabilityIndex == calculateVulnerability(region.zoningData.zones)
      weightedScore == RAdd(RAdd(RScale(wildfireExposure, 35, 1), RScale(historicalLoss, 30, 1)),
                            RAdd(RScale(vulnerabilityIndex, 25, 1), <<6, 1>>))
      overallScore == RRound(RMin(100, weightedScore))
  IN [regionId |-> region.regionId,
      overallScore |-> overallScore,
      category |-> Pipeline_scoreToCategory(overallScore),
      components |-> [wildfireExposure |-> RRound(RScale(wildfireExposure, 100, 1)),
                      historicalLoss |-> RRound(RScale(historicalLoss, 100, 1)),
                      vulnerabilityIndex |-> RRound(RScale(vulnerabilityIndex, 100, 1)),
                      climateProjection |-> 60, mitigationFactor |-> 20],
      confidence |-> 75]

IsValidRegion(region) == ~IsNull(region.dataQuality) /\ region.dataQuality[1].isValid

\* the loop of runRiskScoring over the regions read at its start
RECURSIVE scoreFrom(_, _, _, _, _, _)
scoreFrom(S, regions, i, scored, warnings, t) ==
  IF i > Len(regions)
  THEN [store |-> emitEvent(S, "risk_scoring_completed", ""),
        executed |-> Executed(scored, <<>>, warnings)]
  ELSE IF ~IsValidRegion(regions[i])
       THEN scoreFrom(S, regions, i + 1, scored, Append(warnings, "Skipping: Invalid data"), t)
       ELSE LET region == getRegion(S, regions[i].regionId)
            IN scoreFrom(updateRegionRiskScore(S, region.regionId,
                                               Pipeline_calculateRiskScore(region), t),
                         regions, i + 1, scored + 1, warnings, t)

runRiskScoring(S, t) ==
  LET S1 == emitEvent(S, "risk_scoring_started", "")
  IN scoreFrom(S1, getAllRegions(S1), 1, 0, <<>>, t)

Pipeline_generateRecommendations(riskScore) ==
  (IF riskScore.components.wildfireExposure > 50 THEN 2 ELSE 0)
  + (IF riskScore.components.vulnerabilityIndex > 60 THEN 2 ELSE 0)
  + (IF riskScore.overallScore \notin {NaN, JsonNull} /\ riskScore.overallScore > 60
     THEN 2 ELSE 0)

generateRegionReport(S, region) ==
  [regionId |-> region.regionId,
   regionName |-> region.regionName,
   riskScore |-> region.riskScore[1],
   rankings |-> SelectSeq(getGlobalRankings(S), LAMBDA r : r.regionId = region.regionId),
   projections |-> 3,
   recoveryScenarios |-> 2,
   recommendations |-> Pipeline_generateRecommendations(region.riskScore[1])]

\* the loop of generateReports over the scored regions read at its start
RECURSIVE reportFrom(_, _, _, _, _)
reportFrom(S, regions, i, generated, t) ==
  IF i > Len(regions)
  THEN [store |-> emitEvent(S, "report_generation_completed", ""),
        executed |-> Executed(generated, <<>>, <<>>)]
  ELSE LET region == getRegion(S, regions[i].regionId)
       IN reportFrom(addReport(S, region.regionId, generateRegionReport(S, region), t),
                     regions, i + 1, generated + 1, t)

generateReports(S, t) ==
  LET S1 == emitEvent(S, "report_generation_started", "")
  IN reportFrom(S1, SelectScored(getAllRegions(S1)), 1, 0, t)

syncState(S) == Executed(Len(getAllRegions(S)), <<>>, <<>>)

cleanup == Executed(0, <<>>, <<>>)

\* risk_scoring runs whatever the ingestion stages reported
RiskScoringAlwaysDue(wildfireResult, zoningResult) == TRUE

\* wildfireResult.success && zoningResult.success
RiskScoringDue(wildfireResult, zoningResult) == wildfireResult.success /\ zoningResult.success

\* this.stageResults.every(r => r.success)
AllSucceeded(stageResults) == \A i \in 1..Len(stageResults) : stageResults[i].success

generatePipelineSummary(P, S) ==
  [stagesCompleted |-> Len(SelectSeq(P.stageResults, LAMBDA r : r.success)),
   totalStages |-> Len(P.stageResults),
   totalRecordsProcessed |-> SumSeq([i \in 1..Len(P.stageResults) |->
                                       P.stageResults[i].recordsProcessed]),
   errorCount |-> SumSeq([i \in 1..Len(P.stageResults) |-> Len(P.stageResults[i].errors)]),
   warningCount |-> SumSeq([i \in 1..Len(P.stageResults) |-> Len(P.stageResults[i].warnings)]),
   regionsAnalyzed |-> Len(getAllRegions(S)),
   topRiskRegions |-> [i \in 1..(IF Len(getGlobalRankings(S)) < 5
                                 THEN Len(getGlobalRankings(S)) ELSE 5) |->
                         getGlobalRankings(S)[i].regionName]]

\* runFullPipeline from the end of zoning_ingestion to its return: none of
\* these stages waits for I/O, so no other callback runs in between
FinishRun(P, S, zoningExecuted, t) ==
  LET S1 == emitEvent(S, "data_ingestion_completed", "")
      zoningResult == runStage("zoning_ingestion", zoningExecuted, "run")
      P1 == PushResult(P, zoningResult)
      validated == validateAllData(S1, t)
      P2 == PushResult(P1, runStage("data_validation", validated.executed, "run"))
      due == RiskScoringDue(P.wildfireResult[1], zoningResult)
      scoredRun == runRiskScoring(validated.store, t)
      S3 == IF due THEN scoredRun.store ELSE validated.store
      P3 == IF due THEN PushResult(P2, runStage("risk_scoring", scoredRun.executed, "run"))
            ELSE P2
      reported == generateReports(S3, t)
      P4 == PushResult(P3, runStage("report_generation", reported.executed, "run"))
      P5 == PushResult(P4, runStage("state_sync", syncState(reported.store), "run"))
      P6 == PushResult(P5, runStage("cleanup", cleanup, "run"))
      S6 == updateEventStatus(reported.store, P.pipelineEvent, "completed")
      S7 == setPipelineRunning(S6, FALSE, t)
      P7 == [P6 EXCEPT !.isRunning = FALSE, !.zoningResult = Some(zoningResult)]
  IN [pipeline |-> [P7 EXCEPT
                      !.pc = "returned",
                      !.returned = Some([success |-> AllSucceeded(P7.stageResults),
                                         stages |-> P7.stageResults,
                                         summary |-> generatePipelineSummary(P7, S7)])],
      store |-> S7]

NoAccumulator == [recordsProcessed |-> 0, errors |-> <<>>, warnings |-> <<>>]

\* ------------------------------------------------------------------------
\* AutomationPipeline: scheduled execution (lines 492-521)
\* ------------------------------------------------------------------------
\* calls of startScheduledExecution in one behaviour
MaxStarts == 2

\* timers that fire in one behaviour
MaxFirings == 2

\* DEFAULT_CONFIG: the three intervals, in hours
DEFAULT_CONFIG ==
  [wildfireRefreshInterval |-> 6, zoningRefreshInterval |-> 168, riskScoringInterval |-> 24]

\* new AutomationPipeline(config): the default intervals, or shorter ones
PipelineConfigs ==
  {DEFAULT_CONFIG,
   [wildfireRefreshInterval |-> 3, zoningRefreshInterval |-> 1, riskScoringInterval |-> 2],
   [wildfireRefreshInterval |-> 2, zoningRefreshInterval |-> 3, riskScoringInterval |-> 1]}

intervalOf(config, taskId) ==
  CASE taskId = "wildfire" -> config.wildfireRefreshInterval
    [] taskId = "zoning" -> config.zoningRefreshInterval
    [] taskId = "scoring" -> config.riskScoringInterval

\* Math.min of the three intervals
shortestInterval(config) ==
  LET all == {config.wildfireRefreshInterval, config.zoningRefreshInterval,
              config.riskScoringInterval}
  IN CHOOSE m \in all : \A n \in all : m <= n

\* scheduledTasks is the Map from task id to Timeout handle, as a set of
\* entries; timers are the timeouts of the event loop that are pending;
\* running holds a frame for every runTask that awaits its executor.
\* starts, fired and stopped record what has happened: the calls of
\* startScheduledExecution, the timers that fired, and whether
\* stopScheduledExecution was the last of the two calls.
NewSchedule(config) ==
  [config |-> config, scheduledTasks |-> {}, timers |-> {}, running |-> <<>>,
   nextTimer |-> 1, starts |-> 0, fired |-> 0, stopped |-> FALSE]

\* this.scheduledTasks.set(taskId, setTimeout(runTask, intervalMs)): the
\* handle the Map held for taskId is replaced, its timeout is not cleared
scheduleTask(sch, taskId, t) ==
  LET timer == [id |-> sch.nextTimer, taskId |-> taskId,
                due |-> t + intervalOf(sch.config, taskId)]
  IN [sch EXCEPT !.timers = @ \cup {timer},
                 !.scheduledTasks = {e \in @ : e.taskId # taskId}
                                      \cup {[taskId |-> taskId, timeout |-> timer.id]},
                 !.nextTimer = @ + 1]

startScheduledExecution(sch, t) ==
  LET s1 == scheduleTask(sch, "wildfire", t)
      s2 == scheduleTask(s1, "zoning", t)
      s3 == scheduleTask(s2, "scoring", t)
  IN [s3 EXCEPT !.starts = @ + 1, !.stopped = FALSE]

\* forEach(clearTimeout) over the handles the Map holds, then clear()
stopScheduledExecution(sch) ==
  [sch EXCEPT !.timers = {tm \in @ : tm.id \notin {e.timeout : e \in sch.scheduledTasks}},
              !.scheduledTasks = {},
              !.stopped = TRUE]

\* new AutomationPipeline(config)
NewAutomationPipeline(config) ==
  [isRunning |-> FALSE, stageResults |-> <<>>, pc |-> "idle", pipelineEvent |-> 0,
   locals |-> NoAccumulator, index |-> 0, wildfireResult |-> Null,
   zoningResult |-> Null, returned |-> Null, schedule |-> NewSchedule(config),
   laterRuns |-> 0, rejected |-> 0, lastError |-> Null]

PipelineInit == pipeline = NewAutomationPipeline(DEFAULT_CONFIG)

\* runFullPipeline up to its first wait: initialization, and ingestWildfireData
\* up to fetchCurrentPerimeters()
StartRunOf(P) ==
  /\ ~P.isRunning
  /\ LET S1 == setPipelineRunning(stateManager, TRUE, now)
         S2 == emitEvent(S1, "data_ingestion_started", "")
         P1 == [P EXCEPT !.isRunning = TRUE, !.stageResults = <<>>,
                         !.pipelineEvent = LastEventId(S2)]
         P2 == PushResult(P1, runStage("initialization", Executed(0, <<>>, <<>>), "run"))
     IN /\ stateManager' = emitEvent(S2, "data_ingestion_started", "")
        /\ pipeline' = [P2 EXCEPT !.pc = "current", !.locals = NoAccumulator]
  /\ UNCHANGED <<now, analystVars, crew, fetch, client>>

StartRun ==
  /\ pipeline.pc = "idle"
  /\ StartRunOf(pipeline)

\* runFullPipeline calls of one behaviour after the first
MaxLaterRuns == 1

\* runFullPipeline calls of one behaviour that throw at once
MaxRejected == 1

\* the check of isRunning comes behind this.stageResults = []
rejectRunAfterReset(P) ==
  [P EXCEPT !.stageResults = <<>>, !.rejected = @ + 1,
            !.lastError = Some("Pipeline is already running")]

\* if (this.isRunning) throw new Error('Pipeline is already running')
rejectRun(P) ==
  [P EXCEPT !.rejected = @ + 1, !.lastError = Some("Pipeline is already running")]

\* runFullPipeline is called while a run is in progress
RunWhileRunning ==
  /\ pipeline.isRunning
  /\ pipeline.rejected < MaxRejected
  /\ pipeline' = rejectRun(pipeline)
  /\ UNCHANGED <<stateManager, now, analystVars, crew, fetch, client>>

\* runFullPipeline is called after an earlier run has returned
StartRunAgain ==
  /\ pipeline.pc = "returned"
  /\ pipeline.laterRuns < MaxLaterRuns
  /\ StartRunOf([pipeline EXCEPT !.laterRuns = @ + 1])

\* fetchCurrentPerimeters() settles; fetchRecentHistoricalFires() is called
CurrentPerimetersSettle ==
  /\ pipeline.pc = "current"
  /\ \E answer \in PerimeterAnswers :
       IF answer.threw
       THEN /\ pipeline' = [pipeline EXCEPT !.pc = "historical",
                              !.locals.errors = Append(@, "Current perimeters")]
            /\ UNCHANGED stateManager
       ELSE /\ pipeline' = [pipeline EXCEPT !.pc = "historical",
                              !.locals.recordsProcessed = @ + Len(answer.perimeters),
                              !.locals.warnings = IF answer.isValid THEN @
                                                  ELSE Append(@, "Current perimeters")]
            /\ stateManager' = updateFireCentreStates(stateManager, answer.perimeters, now)
  /\ UNCHANGED <<now, analystVars, crew, fetch, client>>

\* fetchRecentHistoricalFires() settles; fetchActiveHotspots() is called
HistoricalPerimetersSettle ==
  /\ pipeline.pc = "historical"
  /\ \E answer \in HistoricalAnswers :
       IF answer.threw
       THEN /\ pipeline' = [pipeline EXCEPT !.pc = "hotspots",
                              !.locals.errors = Append(@, "Historical perimeters")]
            /\ UNCHANGED stateManager
       ELSE /\ pipeline' = [pipeline EXCEPT !.pc = "hotspots",
                              !.locals.recordsProcessed = @ + Len(answer.perimeters),
                              !.locals.warnings = IF answer.isValid THEN @
                                                  ELSE Append(@, "Historical perimeters")]
            /\ stateManager' = updateFireCentreStatistics(
                                 stateManager, calculateStatistics(answer.perimeters), now)
  /\ UNCHANGED <<now, analystVars, crew, fetch, client>>

\* fetchActiveHotspots() settles: wildfire_ingestion ends, ingestZoningData
\* runs up to its Promise.all
HotspotsSettle ==
  /\ pipeline.pc = "hotspots"
  /\ \E answer \in HotspotAnswers :
       LET locals == IF answer.threw
                     THEN [pipeline.locals EXCEPT !.warnings = Append(@, "Active hotspots")]
                     ELSE [pipeline.locals EXCEPT !.recordsProcessed = @ + answer.hotspots]
           wildfireResult ==
             runStage("wildfire_ingestion",
                      Executed(locals.recordsProcessed, locals.errors, locals.warnings), "run")
           S1 == emitEvent(stateManager, "data_ingestion_completed", "")
       IN /\ stateManager' = emitEvent(S1, "data_ingestion_started", "")
          /\ pipeline' = [PushResult(pipeline, wildfireResult) EXCEPT
                            !.pc = "boundaries", !.locals = NoAccumulator,
                            !.wildfireResult = Some(wildfireResult)]
  /\ UNCHANGED <<now, analystVars, crew, fetch, client>>

\* Promise.all([fetchMunicipalities(), fetchRegionalDistricts()]) settles; the
\* loop over targetRegions calls fetchMunicipalityZoning for the first region
ProvincialBoundariesSettle ==
  /\ pipeline.pc = "boundaries"
  /\ \E answer \in BoundaryAnswers :
       pipeline' = [pipeline EXCEPT
                      !.pc = "zoning", !.index = 1,
                      !.locals = IF answer.threw
                                 THEN [@ EXCEPT !.errors = Append(@, "Provincial boundaries")]
                                 ELSE [@ EXCEPT !.recordsProcessed =
                                                  @ + answer.municipalities + answer.districts]]
  /\ UNCHANGED <<stateManager, now, analystVars, crew, fetch, client>>

\* fetchMunicipalityZoning(regionId) settles: the next region is fetched, or
\* after the last one the run goes on to its return
MunicipalityZoningSettle ==
  /\ pipeline.pc = "zoning"
  /\ \E answer \in ZoningAnswers :
       LET regionId == targetRegions[pipeline.index]
           locals == IF answer.threw
                     THEN [pipeline.locals EXCEPT !.warnings = Append(@, "Zoning")]
                     ELSE IF answer.found
                     THEN [pipeline.locals EXCEPT !.recordsProcessed = @ + Len(answer.zones)]
                     ELSE pipeline.locals
           S1 == IF ~answer.threw /\ answer.found
                 THEN updateRegionZoningData(stateManager, regionId, answer.zones, now)
                 ELSE stateManager
       IN IF pipeline.index < Len(targetRegions)
          THEN /\ pipeline' = [pipeline EXCEPT !.index = @ + 1, !.locals = locals]
               /\ stateManager' = S1
          ELSE LET finished ==
                     FinishRun(pipeline, S1,
                               Executed(locals.recordsProcessed, locals.errors, locals.warnings),
                               now)
               IN /\ pipeline' = finished.pipeline
                  /\ stateManager' = finished.store
  /\ UNCHANGED <<now, analystVars, crew, fetch, client>>

\* POST /api/risk/[regionId] creates the record of a region it does not know
CreateRegion ==
  /\ pipeline.pc = "idle"
  /\ \E id \in RegionIds :
       /\ ~HasRegion(stateManager, id)
       /\ stateManager' = setRegion(stateManager, id,
            [regionId |-> id, regionName |-> id, regionType |-> "municipality"], now)
  /\ UNCHANGED <<now, analystVars, pipeline, crew, fetch, client>>

\* a client stores the first score of a region
ScoreRegion ==
  /\ pipeline.pc = "idle"
  /\ \E id \in RegionIds : \E score \in GivenScores :
       /\ HasRegion(stateManager, id)
       /\ IsNull(getRegion(stateManager, id).riskScore)
       /\ stateManager' = updateRegionRiskScore(stateManager, id, RiskScoreOf(id, score), now)
  /\ UNCHANGED <<now, analystVars, pipeline, crew, fetch, client>>

\* stateManager.deserialize(stateManager.serialize()): the state is restored
\* from its persisted form
RestoreState ==
  /\ pipeline.pc = "idle"
  /\ stateManager' = deserialize(stateManager, serialize(stateManager))
  /\ UNCHANGED <<now, analystVars, pipeline, crew, fetch, client>>

\* more than maxStaleDataHours pass
Tick ==
  /\ pipeline.pc = "idle"
  /\ now + maxStaleDataHours + 1 <= MaxClock
  /\ now' = now + maxStaleDataHours + 1
  /\ UNCHANGED <<stateManager, analystVars, pipeline, crew, fetch, client>>

NextPipeline ==
  \/ CreateRegion
  \/ ScoreRegion
  \/ RestoreState
  \/ Tick
  \/ StartRun
  \/ CurrentPerimetersSettle
  \/ HistoricalPerimetersSettle
  \/ HotspotsSettle
  \/ ProvincialBoundariesSettle
  \/ MunicipalityZoningSettle

\* POST /api/pipeline { action: 'schedule' }
StartScheduledExecution ==
  /\ pipeline.schedule.starts < MaxStarts
  /\ pipeline' = [pipeline EXCEPT !.schedule = startScheduledExecution(@, now)]
  /\ stateManager' = setNextScheduledRun(
                       stateManager, Date(now + shortestInterval(pipeline.schedule.config)))
  /\ UNCHANGED <<now, analystVars, crew, fetch, client>>

\* DELETE /api/pipeline
StopScheduledExecution ==
  /\ pipeline.schedule.starts > 0
  /\ ~pipeline.schedule.stopped
  /\ pipeline' = [pipeline EXCEPT !.schedule = stopScheduledExecution(@)]
  /\ UNCHANGED <<stateManager, now, analystVars, crew, fetch, client>>

\* the pending timeout that is due first; timeouts due together fire in the
\* order they were set
IsNextTimer(sch, timer) ==
  /\ timer \in sch.timers
  /\ \A other \in sch.timers :
       \/ timer.due < other.due
       \/ timer.due = other.due /\ timer.id <= other.id

TaskFrame(taskId, pc) == [taskId |-> taskId, pc |-> pc, index |-> 0, locals |-> NoAccumulator]

\* a StageResult of a scheduled task is pushed, runTask sets the next timeout
\* at hour t
taskDone(P, taskId, executed, stage, t) ==
  [PushResult(P, runStage(stage, executed, "schedule")) EXCEPT
     !.schedule = scheduleTask(@, taskId, t)]

\* a timeout fires: runTask calls its executor, which runs up to its first
\* await that waits. runRiskScoring waits for nothing: the scoring task ends,
\* and sets its next timeout, before anything else can run.
TimerFires ==
  /\ pipeline.schedule.fired < MaxFirings
  /\ \E timer \in pipeline.schedule.timers :
       /\ IsNextTimer(pipeline.schedule, timer)
       /\ LET t == IF timer.due > now THEN timer.due ELSE now
              fired == [pipeline EXCEPT !.schedule.timers = @ \ {timer},
                                        !.schedule.fired = @ + 1]
          IN /\ now' = t
             /\ IF timer.taskId = "scoring"
                THEN LET scored == runRiskScoring(stateManager, t)
                     IN /\ stateManager' = scored.store
                        /\ pipeline' = taskDone(fired, "scoring", scored.executed,
                                                "risk_scoring", t)
                ELSE /\ stateManager' = emitEvent(stateManager, "data_ingestion_started", "")
                     /\ pipeline' =
                          [fired EXCEPT !.schedule.running =
                             Append(@, TaskFrame(timer.taskId,
                                                 IF timer.taskId = "wildfire" THEN "current"
                                                 ELSE "boundaries"))]
  /\ UNCHANGED <<analystVars, crew, fetch, client>>

\* what the fetch a frame awaits can answer
AnswersAt(pc) ==
  CASE pc = "current" -> PerimeterAnswers
    [] pc = "historical" -> HistoricalAnswers
    [] pc = "hotspots" -> HotspotAnswers
    [] pc = "boundaries" -> BoundaryAnswers
    [] pc = "zoning" -> ZoningAnswers

WithoutFrame(running, i) == SubSeq(running, 1, i - 1) \o SubSeq(running, i + 1, Len(running))

\* ingestWildfireData and ingestZoningData of a scheduled task, from the await
\* at frame.pc to the next one: the frame after it, the store after it, and
\* whether the executor has returned
taskStep(frame, S, answer, t) ==
  CASE frame.pc = "current" ->
         [frame |-> [frame EXCEPT
                       !.pc = "historical",
                       !.locals = IF answer.threw
                                  THEN [@ EXCEPT !.errors = Append(@, "Current perimeters")]
                                  ELSE [@ EXCEPT
                                          !.recordsProcessed = @ + Len(answer.perimeters),
                                          !.warnings = IF answer.isValid THEN @
                                                       ELSE Append(@, "Current perimeters")]],
          store |-> IF answer.threw THEN S
                    ELSE updateFireCentreStates(S, answer.perimeters, t),
          returned |-> FALSE]
    [] frame.pc = "historical" ->
         [frame |-> [frame EXCEPT
                       !.pc = "hotspots",
                       !.locals = IF answer.threw
                                  THEN [@ EXCEPT !.errors = Append(@, "Historical perimeters")]
                                  ELSE [@ EXCEPT
                                          !.recordsProcessed = @ + Len(answer.perimeters),
                                          !.warnings = IF answer.isValid THEN @
                                                       ELSE Append(@, "Historical perimeters")]],
          store |-> IF answer.threw THEN S
                    ELSE updateFireCentreStatistics(
                           S, calculateStatistics(answer.perimeters), t),
          returned |-> FALSE]
    [] frame.pc = "hotspots" ->
         [frame |-> [frame EXCEPT
                       !.pc = "returned",
                       !.locals = IF answer.threw
                                  THEN [@ EXCEPT !.warnings = Append(@, "Active hotspots")]
                                  ELSE [@ EXCEPT !.recordsProcessed = @ + answer.hotspots]],
          store |-> emitEvent(S, "data_ingestion_completed", ""),
          returned |-> TRUE]
    [] frame.pc = "boundaries" ->
         [frame |-> [frame EXCEPT
                       !.pc = "zoning", !.index = 1,
                       !.locals = IF answer.threw
                                  THEN [@ EXCEPT !.errors = Append(@, "Provincial boundaries")]
                                  ELSE [@ EXCEPT !.recordsProcessed =
                                                   @ + answer.municipalities
                                                     + answer.districts]],
          store |-> S,
          returned |-> FALSE]
    [] frame.pc = "zoning" ->
         LET last == frame.index = Len(targetRegions)
             S1 == IF ~answer.threw /\ answer.found
                   THEN updateRegionZoningData(S, targetRegions[frame.index], answer.zones, t)
                   ELSE S
         IN [frame |-> [frame EXCEPT
                          !.pc = IF last THEN "returned" ELSE "zoning",
                          !.index = IF last THEN @ ELSE @ + 1,
                          !.locals = IF answer.threw
                                     THEN [@ EXCEPT !.warnings = Append(@, "Zoning")]
                                     ELSE IF answer.found
                                     THEN [@ EXCEPT !.recordsProcessed = @ + Len(answer.zones)]
                                     ELSE @],
             store |-> IF last THEN emitEvent(S1, "data_ingestion_completed", "") ELSE S1,
             returned |-> last]

\* the fetch a scheduled task awaits settles: the executor goes on to its
\* next await, or returns, and then runStage pushes its result and runTask
\* sets the next timeout of the task
TaskSettles ==
  /\ \E i \in 1..Len(pipeline.schedule.running) :
       LET frame == pipeline.schedule.running[i]
       IN \E answer \in AnswersAt(frame.pc) :
            LET step == taskStep(frame, stateManager, answer, now)
                locals == step.frame.locals
            IN /\ stateManager' = step.store
               /\ pipeline' =
                    IF step.returned
                    THEN taskDone([pipeline EXCEPT !.schedule.running = WithoutFrame(@, i)],
                                  frame.taskId,
                                  Executed(locals.recordsProcessed, locals.errors,
                                           locals.warnings),
                                  IF frame.taskId = "wildfire" THEN "wildfire_ingestion"
                                  ELSE "zoning_ingestion",
                                  now)
                    ELSE [pipeline EXCEPT !.schedule.running[i] = step.frame]
  /\ UNCHANGED <<now, analystVars, crew, fetch, client>>

NextSchedule ==
  \/ StartScheduledExecution
  \/ StopScheduledExecution
  \/ TimerFires
  \/ TaskSettles

\* ------------------------------------------------------------------------
\* DataFetcher.fetchWFSPaginated (data-fetcher.ts)
\* ------------------------------------------------------------------------
\* the hard cap on accumulated features
FeatureLimit == 50000

\* options.pageSize || 1000
DefaultPageSize == 1000

\* values of options.pageSize; 0 stands for an absent option
PageSizeOptions == {0, 1100, 30000}

\* lengths of the feature list a page fetch answers with, for a page size
PageLengths(pageSize) == {0, pageSize \div 2, pageSize, pageSize + 100}

\* The k-th feature of the n-th page served is the pair <<n, k>>. A feature
\* list is kept as the sequence of its runs [page |-> n, count |-> c]: the
\* first c features of page n.
FeatureCount(features) == SumSeq([i \in 1..Len(features) |-> features[i].count])

\* [...allFeatures, ...page.slice(0, count)]
Concat(features, page, count) ==
  IF count = 0 THEN features ELSE Append(features, [page |-> page, count |-> count])

\* the page is appended whole and the limit is looked at afterwards
appendPageThenCheck(allFeatures, page, length) ==
  [allFeatures |-> Concat(allFeatures, page, length),
   limitHit |-> FeatureCount(allFeatures) + length > FeatureLimit]

\* the branch on allFeatures.length + features.length > 50000
appendPage(allFeatures, page, length) ==
  IF FeatureCount(allFeatures) + length > FeatureLimit
  THEN [allFeatures |-> Concat(allFeatures, page, FeatureLimit - FeatureCount(allFeatures)),
        limitHit |-> TRUE]
  ELSE [allFeatures |-> Concat(allFeatures, page, length), limitHit |-> FALSE]

\* DEFAULT_FETCH_OPTIONS.retries
DefaultRetries == 3

\* opts.retries: absent, or the number a caller gives
RetryOptions == {Null, Some(-1), Some(0), Some(1), Some(2)}

\* { ...DEFAULT_FETCH_OPTIONS, ...options }.retries
retriesOf(option) == IF IsNull(option) THEN DefaultRetries ELSE option[1]

\* one attempt more than opts.retries || 1
attemptLimitPlusOne(retries) == (IF retries = 0 THEN 1 ELSE retries) + 1

\* opts.retries || 1
attemptLimit(retries) == IF retries = 0 THEN 1 ELSE retries

\* Math.pow(2, attempt) * 1000
RECURSIVE backoff(_)
backoff(attempt) == IF attempt = 0 THEN 1000 ELSE 2 * backoff(attempt - 1)

\* getTTLForFrequency('daily'), in hours
dailyTTL == 1

\* what fetchWithTimeout throws
FetchErrors == {"HTTP 500: Internal Server Error", "This operation was aborted"}

\* what fetchWithTimeout resolves to
FetchedData == {"features of the first answer", "features of a later answer"}

\* a fetchFromSource call that is not made yet. outcomes, slept and wrote
\* record what the call did: the outcome of each fetchWithTimeout, the
\* milliseconds of each sleep and the cache entries it set
NoSourceCall ==
  [pc |-> "idle", retries |-> 0, cache |-> FALSE, attempt |-> 0, lastError |-> Null,
   outcomes |-> <<>>, slept |-> <<>>, wrote |-> <<>>, result |-> Null, error |-> Null,
   calls |-> 0]

\* getFromCache at hour t: the entry, unless it is older than its ttl
getFromCache(dataCache, t) ==
  IF IsNull(dataCache) THEN [dataCache |-> dataCache, cached |-> Null]
  ELSE IF t - dataCache[1].timestamp > dataCache[1].ttl
       THEN [dataCache |-> Null, cached |-> Null]
       ELSE [dataCache |-> dataCache, cached |-> Some(dataCache[1].data)]

\* the loop of fetchFromSource at its condition: the next attempt, or the
\* throw behind the loop
loopOrThrow(call) ==
  IF call.attempt < attemptLimit(call.retries)
  THEN [call EXCEPT !.pc = "fetching"]
  ELSE [call EXCEPT !.pc = "threw",
                    !.error = Some([message |-> "Failed to fetch from",
                                    cause |-> call.lastError])]

FetchInit ==
  fetch = [pc |-> "idle", pageSize |-> 0, allFeatures |-> <<>>, startIndex |-> 0,
           requested |-> <<>>, served |-> <<>>, result |-> <<>>,
           source |-> NoSourceCall, dataCache |-> Null]

\* the loop goes on after every page that is not empty
hasMoreWhileNotEmpty(length, pageSize, limitHit) == length > 0 /\ ~limitHit

\* hasMore after a page: false for an empty page and at the limit, else
\* result.data.features.length === pageSize
hasMoreAfter(length, pageSize, limitHit) ==
  length > 0 /\ ~limitHit /\ length = pageSize

\* fetchWFSPaginated up to the first fetchFromSource
StartFetch ==
  /\ fetch.pc = "idle"
  /\ \E option \in PageSizeOptions :
       fetch' = [fetch EXCEPT !.pc = "waiting",
                              !.pageSize = IF option = 0 THEN DefaultPageSize ELSE option,
                              !.requested = <<0>>]
  /\ UNCHANGED <<stateManager, now, analystVars, pipeline, crew, client>>

\* fetchFromSource answers with a page: the body of the loop, and the next
\* fetchFromSource or the return
PageSettles ==
  /\ fetch.pc = "waiting"
  /\ \E length \in PageLengths(fetch.pageSize) :
       LET page == Len(fetch.served) + 1
           appended == appendPage(fetch.allFeatures, page, length)
           hasMore == hasMoreAfter(length, fetch.pageSize, appended.limitHit)
           startIndex == IF length > 0 /\ ~appended.limitHit
                         THEN fetch.startIndex + fetch.pageSize ELSE fetch.startIndex
       IN fetch' = [fetch EXCEPT
                      !.served = Append(@, length),
                      !.allFeatures = appended.allFeatures,
                      !.startIndex = startIndex,
                      !.requested = IF hasMore THEN Append(@, startIndex) ELSE @,
                      !.pc = IF hasMore THEN "waiting" ELSE "returned",
                      !.result = IF hasMore THEN @ ELSE appended.allFeatures]
  /\ UNCHANGED <<stateManager, now, analystVars, pipeline, crew, client>>

\* fetchFromSource fails after its retries: the call rejects
PageFails ==
  /\ fetch.pc = "waiting"
  /\ fetch' = [fetch EXCEPT !.pc = "failed"]
  /\ UNCHANGED <<stateManager, now, analystVars, pipeline, crew, client>>

NextFetch ==
  \/ StartFetch
  \/ PageSettles
  \/ PageFails

\* fetchFromSource calls of one behaviour
MaxSourceCalls == 2

\* fetchFromSource up to its return from the cache or its first
\* fetchWithTimeout
FetchFromSource ==
  /\ fetch.source.pc \in {"idle", "returned", "threw"}
  /\ fetch.source.calls < MaxSourceCalls
  /\ \E option \in RetryOptions : \E cache \in BOOLEAN :
       LET call == [NoSourceCall EXCEPT !.retries = retriesOf(option), !.cache = cache,
                                        !.calls = fetch.source.calls + 1]
           looked == IF cache THEN getFromCache(fetch.dataCache, now)
                     ELSE [dataCache |-> fetch.dataCache, cached |-> Null]
       IN fetch' = [fetch EXCEPT
                      !.dataCache = looked.dataCache,
                      !.source =
                        IF ~IsNull(looked.cached)
                        THEN [call EXCEPT !.pc = "returned",
                                          !.result = Some([data |-> looked.cached[1],
                                                           fromCache |-> TRUE,
                                                           attempts |-> Null])]
                        ELSE loopOrThrow(call)]
  /\ UNCHANGED <<stateManager, now, analystVars, pipeline, crew, client>>

\* fetchWithTimeout resolves: the cache is set and the call returns
AttemptSucceeds ==
  /\ fetch.source.pc = "fetching"
  /\ \E data \in FetchedData :
       LET entry == [data |-> data, timestamp |-> now, ttl |-> dailyTTL]
       IN fetch' = [fetch EXCEPT
                      !.dataCache = IF fetch.source.cache THEN Some(entry) ELSE @,
                      !.source =
                        [@ EXCEPT !.pc = "returned",
                                  !.outcomes = Append(@, "resolved"),
                                  !.wrote = IF fetch.source.cache THEN Append(@, entry) ELSE @,
                                  !.result = Some([data |-> data, fromCache |-> FALSE,
                                                   attempts |-> Some(fetch.source.attempt + 1)])]]
  /\ UNCHANGED <<stateManager, now, analystVars, pipeline, crew, client>>

\* fetchWithTimeout rejects: the catch block, up to the sleep or, without a
\* sleep, to the next fetchWithTimeout or the throw
AttemptFails ==
  /\ fetch.source.pc = "fetching"
  /\ \E error \in FetchErrors :
       LET caught == [fetch.source EXCEPT !.lastError = Some(error),
                                          !.outcomes = Append(@, error)]
       IN fetch' = [fetch EXCEPT !.source =
                      IF caught.attempt < attemptLimit(caught.retries) - 1
                      THEN [caught EXCEPT !.pc = "sleeping",
                                          !.slept = Append(@, backoff(caught.attempt))]
                      ELSE loopOrThrow([caught EXCEPT !.attempt = @ + 1])]
  /\ UNCHANGED <<stateManager, now, analystVars, pipeline, crew, client>>

\* the sleep ends: attempt++ and the loop goes on
SleepEnds ==
  /\ fetch.source.pc = "sleeping"
  /\ fetch' = [fetch EXCEPT !.source = loopOrThrow([@ EXCEPT !.attempt = @ + 1])]
  /\ UNCHANGED <<stateManager, now, analystVars, pipeline, crew, client>>

\* fetchFromSource calls that follow one another while the clock goes on
NextSource ==
  \/ FetchFromSource
  \/ AttemptSucceeds
  \/ AttemptFails
  \/ SleepEnds
  \/ Tick

\* ------------------------------------------------------------------------
\* DataAnalystAgent and MitigationStrategistAgent (BaseAgent subclasses)
\* ------------------------------------------------------------------------
\* seq.slice(0, n)
slice(seq, n) == SubSeq(seq, 1, IF Len(seq) < n THEN Len(seq) ELSE n)

\* BaseAgent.logMessage: the history is never emptied. run stands for the
\* timestamp of the message.
logMessage(history, agentId, action, regionId, nextAgent, run) ==
  Append(history, [agentId |-> agentId, action |-> action, regionId |-> regionId,
                   nextAgent |-> nextAgent, run |-> run])

assessWildfireDataQuality(data) ==
  IF Len(data.fires) = 0 THEN 0
  ELSE LET score == 50
                    + (IF Len(data.fires) > 10 THEN 20 ELSE 0)
                    + (IF Len(data.statistics) > 5 THEN 15 ELSE 0)
                    + (IF \A i \in 1..Len(data.fires) : data.fires[i].areaBurnedHa > 0
                       THEN 15 ELSE 0)
       IN IF score > 100 THEN 100 ELSE score

assessZoningDataQuality(data) ==
  IF Len(data.zones) = 0 THEN 0
  ELSE LET score == 50
                    + (IF Len(data.zones) > 50 THEN 25 ELSE 0)
                    + (IF \A i \in 1..Len(data.zones) : data.zones[i].areaHa > 0
                       THEN 15 ELSE 0)
                    + (IF \E i \in 1..Len(data.zones) :
                            data.zones[i].developmentStatus = "developed"
                       THEN 10 ELSE 0)
       IN IF score > 100 THEN 100 ELSE score

\* <<number of years, minYear, maxYear>>, or <<>> for 'No data'
calculateDataSpan(fires) ==
  IF Len(fires) = 0 THEN <<>>
  ELSE LET years == {fires[i].fireYear : i \in 1..Len(fires)}
           minYear == CHOOSE y \in years : \A z \in years : y <= z
           maxYear == CHOOSE y \in years : \A z \in years : z <= y
       IN <<maxYear - minYear + 1, minYear, maxYear>>

identifyGaps(input) ==
  (IF Len(input.wildfireData.fires) < 5 THEN <<"Limited wildfire historical data">> ELSE <<>>)
  \o (IF Len(input.zoningData.zones) < 10 THEN <<"Insufficient zoning coverage">> ELSE <<>>)
  \o (IF Len(input.wildfireData.statistics) = 0 THEN <<"Missing fire statistics">> ELSE <<>>)

calculateCompleteness(input) ==
  (IF Len(input.wildfireData.fires) > 0 THEN 33 ELSE 0)
  + (IF Len(input.wildfireData.statistics) > 0 THEN 33 ELSE 0)
  + (IF Len(input.zoningData.zones) > 0 THEN 34 ELSE 0)

IsSince2020(f) == f.fireYear >= 2020

calculateReliability(input) ==
  LET recentData == CountOver(input.wildfireData.fires, IsSince2020)
      totalData == Len(input.wildfireData.fires)
  IN IF totalData = 0 THEN <<0, 1>>
     ELSE RMin(100, RAdd(RNorm(<<recentData * 100, totalData>>), <<30, 1>>))

IsText(line) == line \notin {"", " "}

\* llm is <<>> when no LLM is configured, else <<answer>>: the outcome of the
\* callLLM the method awaits
DataAnalyst_generateRecommendations(input, qualityScore, llm) ==
  LET rules ==
        (IF qualityScore[1] < 70 * qualityScore[2]
         THEN <<"Data quality below threshold - consider additional data sources">>
         ELSE <<>>)
        \o (IF Len(input.wildfireData.fires) < 10
            THEN <<"Expand wildfire historical data to at least 10 years">> ELSE <<>>)
        \o (IF Len(input.zoningData.zones) < 50
            THEN <<"Increase zoning data coverage for better accuracy">> ELSE <<>>)
      answered ==
        IF IsNull(llm) \/ llm[1].threw THEN <<>>
        ELSE slice(SelectSeq(llm[1].lines, IsText), 3)
  IN slice(rules \o answered, 5)

\* DataAnalystAgent.execute without its logMessage call
DataAnalyst_execute(input, llm) ==
  LET wildfireQuality == assessWildfireDataQuality(input.wildfireData)
      zoningQuality == assessZoningDataQuality(input.zoningData)
      overallScore == RNorm(<<wildfireQuality + zoningQuality, 2>>)
  IN [dataQuality |-> [overallScore |-> overallScore,
                       wildfireDataQuality |-> wildfireQuality,
                       zoningDataQuality |-> zoningQuality,
                       completeness |-> calculateCompleteness(input),
                       reliability |-> calculateReliability(input)],
      summary |-> [totalFires |-> Len(input.wildfireData.fires),
                   totalZones |-> Len(input.zoningData.zones),
                   dataSpan |-> calculateDataSpan(input.wildfireData.fires),
                   majorGaps |-> identifyGaps(input)],
      validatedData |-> input,
      recommendations |-> DataAnalyst_generateRecommendations(input, overallScore, llm),
      readyForAnalysis |-> overallScore[1] >= 70 * overallScore[2]]

\* a timeframe is a string, unless the LLM's JSON held another value
Timeframe(text) == [isString |-> TRUE, text |-> text]

MitigationAction(priority, category, title, cost, timeframe, reduction, stakeholders) ==
  [priority |-> priority, category |-> category, title |-> title, estimatedCost |-> cost,
   timeframe |-> timeframe, expectedRiskReduction |-> reduction,
   stakeholders |-> stakeholders]

\* the rule-based actions of generateMitigationActions; NaN > n is false
RuleActions(riskScore) ==
  (IF riskScore.components.wildfireExposure > 60
   THEN <<MitigationAction("critical", "prevention",
                           "Establish Wildfire Fuel Management Program", 500000,
                           Timeframe("6-12 months"), 12,
                           <<"Municipal Fire Department", "BC Wildfire Service",
                             "Property Owners">>)>>
   ELSE <<>>)
  \o (IF riskScore.components.vulnerabilityIndex > 50
      THEN <<MitigationAction("high", "preparedness",
                              "Enhance Community FireSmart Program", 250000,
                              Timeframe("3-6 months"), 8,
                              <<"Homeowners", "Insurance Providers", "FireSmart Canada">>)>>
      ELSE <<>>)
  \o (IF riskScore.overallScore > 70
      THEN <<MitigationAction("critical", "insurance",
                              "Develop Wildfire Insurance Incentive Program", 100000,
                              Timeframe("2-4 months"), 5,
                              <<"Insurance Bureau of Canada", "Local Insurers",
                                "Municipal Government">>)>>
      ELSE <<>>)
  \o (IF riskScore.components.climateProjection > 40
      THEN <<MitigationAction("high", "mitigation",
                              "Install Early Warning and Detection Systems", 350000,
                              Timeframe("4-8 months"), 7,
                              <<"Municipal Emergency Services", "BC Wildfire Service",
                                "Technology Providers">>)>>
      ELSE <<>>)
  \o <<MitigationAction("medium", "preparedness",
                        "Develop Evacuation and Emergency Response Plans", 75000,
                        Timeframe("2-3 months"), 4,
                        <<"Emergency Management BC", "RCMP", "Local Emergency Services">>)>>

\* item.field || fallback, for a field that is absent (<<>>) or set
OrElse(field, fallback) == IF IsNull(field) THEN fallback ELSE field[1]

\* generateLLMActions: a response that does not parse yields []
generateLLMActions(answer) ==
  IF ~answer.parsed THEN <<>>
  ELSE LET items == slice(answer.items, 2)
       IN [i \in 1..Len(items) |->
             MitigationAction(OrElse(items[i].priority, "medium"),
                              OrElse(items[i].category, "mitigation"),
                              items[i].title, OrElse(items[i].estimatedCost, 150000),
                              OrElse(items[i].timeframe, Timeframe("3-6 months")),
                              OrElse(items[i].expectedRiskReduction, 5),
                              <<"Municipal Government">>)]

\* generateMitigationActions; llm is <<>> when no LLM is configured, else
\* <<answer>>
generateMitigationActions(riskScore, llm) ==
  slice(RuleActions(riskScore)
        \o (IF IsNull(llm) \/ llm[1].threw THEN <<>> ELSE generateLLMActions(llm[1])), 8)

\* priorityWeight[priority]: a priority that is no key of the table yields
\* undefined, the comparator NaN, and the action keeps its place; such an
\* action comes last in the list, where the weight 1 keeps it
priorityWeight(priority) ==
  CASE priority = "critical" -> 4
    [] priority = "high" -> 3
    [] priority = "medium" -> 2
    [] OTHER -> 1

RECURSIVE InsertByPriority(_, _)
InsertByPriority(sorted, a) ==
  IF sorted = <<>> THEN <<a>>
  ELSE IF priorityWeight(Head(sorted).priority) >= priorityWeight(a.priority)
       THEN <<Head(sorted)>> \o InsertByPriority(Tail(sorted), a)
       ELSE <<a>> \o sorted

\* actions.sort(...) by descending weight; Array.prototype.sort is stable
RECURSIVE sortByPriority(_)
sortByPriority(actions) ==
  IF actions = <<>> THEN <<>>
  ELSE InsertByPriority(sortByPriority(SubSeq(actions, 1, Len(actions) - 1)),
                        actions[Len(actions)])

\* String.prototype.includes over the timeframes that occur
Includes(text, part) ==
  <<text, part>> \in {<<"2-3 months", "2-3">>, <<"6-12 months", "6-12">>,
                     <<"12-24 months", "12-24">>}

\* actions.some(a => a.timeframe.includes(part)): "true", "false", or "throws"
\* when it reaches an action whose timeframe has no includes method
RECURSIVE SomeIncludes(_, _)
SomeIncludes(actions, part) ==
  IF actions = <<>> THEN "false"
  ELSE IF ~Head(actions).timeframe.isString THEN "throws"
  ELSE IF Includes(Head(actions).timeframe.text, part) THEN "true"
  ELSE SomeIncludes(Tail(actions), part)

calculateTimeline(actions) ==
  LET hasImmediate == SomeIncludes(actions, "2-3")
      hasMedium == SomeIncludes(actions, "6-12")
      hasLong == SomeIncludes(actions, "12-24")
  IN IF "throws" \in {hasImmediate, hasMedium, hasLong}
     THEN [threw |-> TRUE, timeline |-> ""]
     ELSE [threw |-> FALSE,
           timeline |-> IF hasLong = "true" THEN "12-24 months"
                        ELSE IF hasMedium = "true" THEN "6-12 months"
                        ELSE IF hasImmediate = "true" THEN "2-6 months"
                        ELSE "3-6 months"]

RECURSIVE AddEach(_, _)
AddEach(seen, names) ==
  IF names = <<>> THEN seen
  ELSE AddEach(IF \E i \in 1..Len(seen) : seen[i] = Head(names) THEN seen
               ELSE Append(seen, Head(names)),
               Tail(names))

RECURSIVE StakeholdersOf(_, _)
StakeholdersOf(seen, actions) ==
  IF actions = <<>> THEN seen
  ELSE StakeholdersOf(AddEach(seen, Head(actions).stakeholders), Tail(actions))

identifyStakeholders(actions) == slice(StakeholdersOf(<<>>, actions), 10)

ReductionOf(a) == a.expectedRiskReduction

EstimatedCostOf(a) == a.estimatedCost

\* generateOverallStrategy; llm is <<>> when no LLM is configured or its call
\* threw, else <<text>>
generateOverallStrategy(riskScore, actions, llm) ==
  IF IsNull(llm)
  THEN [text |-> "Comprehensive risk mitigation strategy", category |-> riskScore.category,
        actions |-> Len(actions), reduction |-> SumOver(actions, ReductionOf)]
  ELSE [text |-> llm[1], category |-> "", actions |-> 0, reduction |-> 0]

\* MitigationStrategistAgent.execute from its sort on, without logMessage:
\* actions are the sorted actions
MitigationStrategist_execute(riskScore, actions, strategy) ==
  LET sum == SumOver(actions, ReductionOf)
  IN [overallStrategy |-> strategy,
      actions |-> actions,
      priorityOrder |-> [i \in 1..Len(actions) |-> actions[i].title],
      totalEstimatedCost |-> SumOver(actions, EstimatedCostOf),
      expectedRiskReduction |-> IF sum > 30 THEN 30 ELSE sum,
      implementationTimeline |-> calculateTimeline(actions).timeline,
      keyStakeholders |-> identifyStakeholders(actions)]

\* ------------------------------------------------------------------------
\* CrewOrchestrator.runCrew (crew-orchestrator.ts), one action per stretch of
\* code between two awaits that wait for I/O. In the crew's behaviours the
\* variables agent, arrays and calls are the orchestrator's insuranceAnalyst.
\* ------------------------------------------------------------------------
\* number of runCrew calls of one behaviour
MaxCrewRuns == 1

\* the orchestrator and its agents after construction; llm tells whether
\* OPENAI_API_KEY was set when the agents were constructed
NewCrewOrchestrator(llm) ==
  [llm |-> llm,
   dataAnalyst |-> [messageHistory |-> <<>>],
   mitigationStrategist |-> [messageHistory |-> <<>>],
   run |-> 0, pc |-> "idle", state |-> Null, region |-> Null, call |-> 0,
   actions |-> <<>>, result |-> Null, threw |-> "none", started |-> <<>>,
   returned |-> <<>>, completedRuns |-> 0]

\* const state: CrewState = {...}
NewCrewState(regionId, t) ==
  [regionId |-> regionId, regionName |-> "", currentAgent |-> Null, dataAnalysis |-> Null,
   riskAnalysis |-> Null, mitigationStrategy |-> Null, communicationLog |-> <<>>,
   startTime |-> Date(t), endTime |-> Null, status |-> "running", error |-> Null]

\* a region that is missing is created, as the risk route does before it
\* calls the analyst
lookUpOrCreate(S, regionId, t) ==
  LET store == IF HasRegion(S, regionId) THEN S
               ELSE setRegion(S, regionId,
                              [regionId |-> regionId, regionName |-> regionId,
                               regionType |-> "municipality"], t)
  IN [store |-> store, region |-> Some(getRegion(store, regionId))]

\* const region = stateManager.getRegion(regionId)
lookUp(S, regionId, t) ==
  [store |-> S,
   region |-> IF HasRegion(S, regionId) THEN Some(getRegion(S, regionId)) ELSE Null]

\* the error is recorded and the run goes on
catchAndContinue(state, message, t) == [state EXCEPT !.error = Some(message)]

\* catch (error) {...}: the assignments before throw error
catchError(state, message, t) ==
  [state EXCEPT !.status = "failed", !.error = Some(message), !.endTime = Some(Date(t))]

\* a result that is not ready ends the run
stopsWhenNotReady(dataAnalysis) == ~dataAnalysis.readyForAnalysis

\* if (!state.dataAnalysis.readyForAnalysis) console.warn(...): whether the
\* run ends here
stopsRun(dataAnalysis) == FALSE

NotFoundMessage(regionId) == <<"Region", regionId, "not found. Run data ingestion first.">>

\* the record of a run that threw while stage was the current one
Failed(C, state, stage, message, t) ==
  [C EXCEPT !.state = Some(catchError(state, message, t)), !.pc = "failed",
            !.threw = stage]

DataAnalystInput(region) ==
  [regionId |-> region.regionId, regionName |-> region.regionName,
   wildfireData |-> [fires |-> region.hazardData.historicalFires,
                     statistics |-> region.hazardData.fireStatistics],
   zoningData |-> [zones |-> region.zoningData.zones]]

\* what execute reads of its input is there
IsWellFormed(region) ==
  /\ {"historicalFires", "fireStatistics"} \subseteq DOMAIN region.hazardData
  /\ "zones" \in DOMAIN region.zoningData

\* lines 96-98: the second stage is entered and analyzeRegion runs up to its
\* first await, or throws because the region is gone
BeginRiskAnalysis(C, S) ==
  LET state == [C.state[1] EXCEPT !.currentAgent = Some("insurance-risk-analyst")]
      entered == [C EXCEPT !.started = Append(@, "insurance-risk-analyst")]
  IN /\ AnalyzeStartIn(S, state.regionId)
     /\ crew' = IF HasRegion(S, state.regionId)
                THEN [entered EXCEPT !.state = Some(state),
                                     !.pc = "insurance-risk-analyst",
                                     !.call = Len(calls) + 1]
                ELSE Failed(entered, state, "insurance-risk-analyst",
                            <<"Region", state.regionId, "not found">>, now)

\* lines 85-94: the first stage returned output
DataAnalysisReturned(C, S, output) ==
  LET history == logMessage(C.dataAnalyst.messageHistory, "data-analyst", "validate_data",
                            C.state[1].regionId, "insurance-risk-analyst", C.run)
      state == [C.state[1] EXCEPT !.dataAnalysis = Some(output),
                                  !.communicationLog = @ \o history]
      returned == [C EXCEPT !.dataAnalyst.messageHistory = history,
                            !.state = Some(state),
                            !.returned = Append(@, "data-analyst")]
  IN IF stopsRun(output)
     THEN /\ crew' = [returned EXCEPT !.state = Some(catchError(state, <<"not ready">>, now)),
                                      !.pc = "failed"]
          /\ stateManager' = S
          /\ UNCHANGED analystVars
     ELSE BeginRiskAnalysis(returned, S)

\* lines 46-85: a call of runCrew up to its first await that waits
RunCrewWithin(limit) ==
  /\ crew.pc \in {"idle", "completed", "failed"}
  /\ crew.run < limit
  /\ \E regionId \in RegionIds :
       LET found == lookUp(stateManager, regionId, now)
           begun == [crew EXCEPT !.run = @ + 1, !.region = found.region, !.call = 0,
                                 !.actions = <<>>, !.result = Null, !.threw = "none",
                                 !.started = <<>>, !.returned = <<>>]
           state == NewCrewState(regionId, now)
       IN IF IsNull(found.region)
          THEN /\ crew' = Failed(begun, state, "lookup", NotFoundMessage(regionId), now)
               /\ stateManager' = found.store
               /\ UNCHANGED analystVars
          ELSE LET region == found.region[1]
                   first == [state EXCEPT !.regionName = region.regionName,
                                          !.currentAgent = Some("data-analyst")]
                   entered == [begun EXCEPT !.state = Some(first),
                                            !.started = <<"data-analyst">>]
               IN IF ~IsWellFormed(region)
                  THEN /\ crew' = Failed(entered, first, "data-analyst",
                                         <<"Cannot read properties of undefined">>, now)
                       /\ stateManager' = found.store
                       /\ UNCHANGED analystVars
                  ELSE IF crew.llm
                  THEN /\ crew' = [entered EXCEPT !.pc = "data-analyst"]
                       /\ stateManager' = found.store
                       /\ UNCHANGED analystVars
                  ELSE DataAnalysisReturned(entered, found.store,
                                            DataAnalyst_execute(DataAnalystInput(region), Null))
  /\ UNCHANGED <<now, pipeline, fetch, client>>

RunCrew == RunCrewWithin(MaxCrewRuns)

\* what callLLM resolves to, or that it rejected
RecommendationAnswers ==
  {[threw |-> TRUE, lines |-> <<>>],
   [threw |-> FALSE, lines |-> <<"Add sources", "", "Audit", "Extend", "Verify">>]}

\* the LLM call of generateRecommendations settles: the rest of stage 1 and
\* the start of stage 2
DataAnalystSettles ==
  /\ crew.pc = "data-analyst"
  /\ \E answer \in RecommendationAnswers :
       DataAnalysisReturned(crew, stateManager,
                            DataAnalyst_execute(DataAnalystInput(crew.region[1]),
                                                Some(answer)))
  /\ UNCHANGED <<now, pipeline, fetch, client>>

\* lines 114-149 once the strategist's last await settled: execute builds
\* its output and the run completes, or calculateTimeline throws
FinishCrew(C, state, actions, strategy) ==
  IF calculateTimeline(actions).threw
  THEN /\ crew' = Failed(C, state, "mitigation-strategist",
                         <<"a.timeframe.includes is not a function">>, now)
       /\ UNCHANGED stateManager
  ELSE LET riskScore == state.riskAnalysis[1].riskScore
           output == MitigationStrategist_execute(riskScore, actions, strategy)
           history == logMessage(C.mitigationStrategist.messageHistory,
                                 "mitigation-strategist", "generate_mitigation_strategy",
                                 state.regionId, "null", C.run)
           done == [state EXCEPT !.mitigationStrategy = Some(output),
                                 !.communicationLog = @ \o history,
                                 !.endTime = Some(Date(now)),
                                 !.status = "completed",
                                 !.currentAgent = Null]
       IN /\ crew' = [C EXCEPT
                        !.mitigationStrategist.messageHistory = history,
                        !.state = Some(done),
                        !.pc = "completed",
                        !.returned = Append(@, "mitigation-strategist"),
                        !.completedRuns = @ + 1,
                        !.result =
                          Some([regionId |-> done.regionId,
                                regionName |-> done.regionName,
                                dataQuality |-> done.dataAnalysis[1].dataQuality,
                                riskScore |-> riskScore,
                                riskReport |-> done.riskAnalysis[1].report,
                                mitigationStrategy |-> output,
                                communicationLog |-> done.communicationLog,
                                agentCount |-> 3, status |-> "completed"])]
          /\ stateManager' = emitEvent(stateManager, "crew_execution_completed", "")

\* lines 98-114: analyzeRegion returned; the third stage is entered and runs
\* up to its first await that waits
RiskAnalysisReturns ==
  /\ crew.pc = "insurance-risk-analyst"
  /\ calls[crew.call].pc = "returned"
  /\ LET frame == calls[crew.call]
         state == [crew.state[1] EXCEPT
                     !.riskAnalysis = Some([riskScore |-> frame.riskScore,
                                            report |-> frame.report,
                                            conclusions |-> frame.result]),
                     !.communicationLog = @ \o agent.messageHistory,
                     !.currentAgent = Some("mitigation-strategist")]
         entered == [crew EXCEPT !.state = Some(state),
                                 !.returned = Append(@, "insurance-risk-analyst"),
                                 !.started = Append(@, "mitigation-strategist")]
     IN IF crew.llm
        THEN /\ crew' = [entered EXCEPT !.pc = "mitigation-actions"]
             /\ UNCHANGED stateManager
        ELSE LET actions == sortByPriority(
                              generateMitigationActions(frame.riskScore, Null))
             IN FinishCrew(entered, state, actions,
                           generateOverallStrategy(frame.riskScore, actions, Null))
  /\ UNCHANGED <<now, analystVars, pipeline, fetch, client>>

\* what the callLLM of generateLLMActions resolves to, or that it rejected
ActionAnswers ==
  {[threw |-> TRUE, parsed |-> FALSE, items |-> <<>>],
   [threw |-> FALSE, parsed |-> FALSE, items |-> <<>>],
   [threw |-> FALSE, parsed |-> TRUE,
    items |-> <<[title |-> "Community Fuel Breaks", priority |-> Some("critical"),
                 category |-> Some("prevention"), estimatedCost |-> Some(400000),
                 timeframe |-> Some(Timeframe("12-24 months")),
                 expectedRiskReduction |-> Some(10)]>>],
   [threw |-> FALSE, parsed |-> TRUE,
    items |-> <<[title |-> "Rooftop Sprinklers", priority |-> Null,
                 category |-> Null, estimatedCost |-> Null,
                 timeframe |-> Some([isString |-> FALSE, text |-> "6"]),
                 expectedRiskReduction |-> Null]>>],
   [threw |-> FALSE, parsed |-> TRUE,
    items |-> <<[title |-> "Premium Rebates", priority |-> Some("urgent"),
                 category |-> Some("financial"), estimatedCost |-> Some(90000),
                 timeframe |-> Null, expectedRiskReduction |-> Some(3)]>>]}

\* the LLM call of generateLLMActions settles: lines 813-819 and 707-720 of
\* the strategist up to the LLM call of generateOverallStrategy
MitigationActionsSettle ==
  /\ crew.pc = "mitigation-actions"
  /\ \E answer \in ActionAnswers :
       crew' = [crew EXCEPT
                  !.pc = "mitigation-strategy",
                  !.actions = sortByPriority(
                                generateMitigationActions(
                                  crew.state[1].riskAnalysis[1].riskScore, Some(answer)))]
  /\ UNCHANGED <<stateManager, now, analystVars, pipeline, fetch, client>>

\* <<>>: callLLM rejected
StrategyAnswers == {Null, Some("A phased programme")}

\* the LLM call of generateOverallStrategy settles
MitigationStrategySettles ==
  /\ crew.pc = "mitigation-strategy"
  /\ \E answer \in StrategyAnswers :
       FinishCrew(crew, crew.state[1], crew.actions,
                  generateOverallStrategy(crew.state[1].riskAnalysis[1].riskScore,
                                          crew.actions, answer))
  /\ UNCHANGED <<now, analystVars, pipeline, fetch, client>>

\* the crew is between two runs, or a run waits for an LLM answer
CrewIdle == crew.pc \in {"idle", "completed", "failed"}

CrewWaits == crew.pc \in {"data-analyst", "mitigation-actions", "mitigation-strategy"}

\* facts of the regions a client stores before a crew run
CrewFacts ==
  {f \in FactSets : Len(f[1]) \in {0, 10}}

\* hazard data as parsed from JSON that holds no fire lists
MalformedHazardData(t) == [lastUpdated |-> Date(t)]

\* a client stores a region: ingested facts, or a record restored from JSON
StoreRegion ==
  /\ CrewIdle
  /\ crew.run < MaxCrewRuns
  /\ \E id \in RegionIds :
       /\ ~HasRegion(stateManager, id)
       /\ \/ \E facts \in CrewFacts :
               stateManager' = setRegion(stateManager, id,
                 [regionId |-> id, regionName |-> "Named", regionType |-> "municipality",
                  hazardData |-> [historicalFires |-> facts[1], fireStatistics |-> facts[2],
                                  lastUpdated |-> Date(now)],
                  zoningData |-> [zones |-> facts[3],
                                  developedPercentage |->
                                    Percentage(CountStatus(facts[3], "developed"),
                                               IF Len(facts[3]) = 0 THEN 1 ELSE Len(facts[3])),
                                  underdevelopedPercentage |->
                                    Percentage(CountStatus(facts[3], "underdeveloped"),
                                               IF Len(facts[3]) = 0 THEN 1 ELSE Len(facts[3])),
                                  lastUpdated |-> Date(now)]], now)
          \/ stateManager' = setRegion(stateManager, id,
               [regionId |-> id, regionName |-> "Restored", regionType |-> "municipality",
                hazardData |-> MalformedHazardData(now)], now)
  /\ UNCHANGED <<now, analystVars, pipeline, crew, fetch, client>>

\* a client resets the store while a run waits for an LLM answer
ResetDuringRun ==
  /\ CrewWaits
  /\ Len(stateManager.state.regions) > 0
  /\ stateManager' = reset(stateManager, now)
  /\ UNCHANGED <<now, analystVars, pipeline, crew, fetch, client>>

\* the steps of the analyzeRegion call the second stage awaits
InsuranceAnalystStep ==
  /\ crew.pc = "insurance-risk-analyst"
  /\ AnalyzeRegionResume

\* number of runCrew calls that follow a completed run on the same
\* CrewOrchestrator
MaxCrewRepeats == 1

\* the same orchestrator is called again after a run that completed
RunCrewAgain ==
  /\ crew.completedRuns > 0
  /\ RunCrewWithin(MaxCrewRuns + MaxCrewRepeats)

NextCrewRepeated ==
  \/ StoreRegion
  \/ RunCrew
  \/ DataAnalystSettles
  \/ InsuranceAnalystStep
  \/ RiskAnalysisReturns
  \/ MitigationActionsSettle
  \/ MitigationStrategySettles
  \/ RunCrewAgain

NextCrew ==
  \/ StoreRegion
  \/ RunCrew
  \/ DataAnalystSettles
  \/ InsuranceAnalystStep
  \/ RiskAnalysisReturns
  \/ MitigationActionsSettle
  \/ MitigationStrategySettles
  \/ ResetDuringRun

\* ------------------------------------------------------------------------
\* GET /api/regions (app/api/regions/route.ts)
\* ------------------------------------------------------------------------
\* three of the ten municipalities; kamloops is also a fire centre
BC_MAJOR_MUNICIPALITIES ==
  <<[id |-> "vancouver", name |-> "Vancouver"], [id |-> "surrey", name |-> "Surrey"],
    [id |-> "kamloops", name |-> "Kamloops"]>>

\* searchParams.get('type'): null without the parameter, '' for ?type=
TypeFilters ==
  {Null, Some(""), Some("municipality"), Some("fire_centre"), Some("fire_zone"),
   Some("regional_district")}

\* region.riskScore?.overallScore || null
overallScoreOrNull(region) ==
  IF IsNull(region.riskScore) \/ region.riskScore[1].overallScore = 0 THEN Null
  ELSE Some(region.riskScore[1].overallScore)

regionSummary(region) ==
  [id |-> region.regionId, name |-> region.regionName, type |-> region.regionType,
   riskScore |-> overallScoreOrNull(region),
   hasData |-> Len(region.hazardData.historicalFires) > 0
               \/ Len(region.zoningData.zones) > 0]

\* the entries of a list of centres or municipalities that the store lacks
missingOf(S, list, type) ==
  LET missing == SelectSeq(list, LAMBDA entry : ~HasRegion(S, entry.id))
  IN [i \in 1..Len(missing) |->
        [id |-> missing[i].id, name |-> missing[i].name, type |-> type,
         riskScore |-> Null, hasData |-> FALSE]]

regionSummariesOf(S, type) ==
  LET regions == getAllRegions(S)
      filteredRegions == IF ~IsNull(type) /\ type[1] # ""
                         THEN SelectSeq(regions, LAMBDA r : r.regionType = type[1])
                         ELSE regions
  IN [i \in 1..Len(filteredRegions) |-> regionSummary(filteredRegions[i])]

allRegionsOf(S, type) ==
  regionSummariesOf(S, type)
    \o (IF type # Some("municipality") THEN missingOf(S, BC_FIRE_CENTRES, "fire_centre")
        ELSE <<>>)
    \o (IF type # Some("fire_centre")
        THEN missingOf(S, BC_MAJOR_MUNICIPALITIES, "municipality") ELSE <<>>)

regionCounts(S, type, total) ==
  [total |-> total,
   analyzed |-> Len(SelectSeq(regionSummariesOf(S, type), LAMBDA r : ~IsNull(r.riskScore))),
   fireCentres |-> Len(BC_FIRE_CENTRES),
   municipalities |-> Len(BC_MAJOR_MUNICIPALITIES)]

\* total counts the regions of every type, whatever the filter
GETRegionsCountingEveryType(S, type) ==
  [regions |-> allRegionsOf(S, type),
   counts |-> regionCounts(S, type, Len(allRegionsOf(S, Null)))]

\* the body of the response of GET /api/regions?type=
GETRegions(S, type) ==
  [regions |-> allRegionsOf(S, type),
   counts |-> regionCounts(S, type, Len(allRegionsOf(S, type)))]

\* ------------------------------------------------------------------------
\* ZoningIngestionService (data-fetcher.ts). Strings are sequences of
\* characters.
\* ------------------------------------------------------------------------
UpperCase ==
  <<"A", "B", "C", "D", "E", "F", "G", "H", "I", "J", "K", "L", "M",
    "N", "O", "P", "Q", "R", "S", "T", "U", "V", "W", "X", "Y", "Z">>

LowerCase ==
  <<"a", "b", "c", "d", "e", "f", "g", "h", "i", "j", "k", "l", "m",
    "n", "o", "p", "q", "r", "s", "t", "u", "v", "w", "x", "y", "z">>

\* the characters \s matches
WhiteSpace == {" ", "\t", "\n"}

toLowerCase(s) ==
  [i \in 1..Len(s) |->
     IF \E k \in 1..Len(UpperCase) : UpperCase[k] = s[i]
     THEN LowerCase[CHOOSE k \in 1..Len(UpperCase) : UpperCase[k] = s[i]]
     ELSE s[i]]

RECURSIVE replaceRunsFrom(_, _)
replaceRunsFrom(s, i) ==
  IF i > Len(s) THEN <<>>
  ELSE IF s[i] \in WhiteSpace
       THEN (IF i > 1 /\ s[i - 1] \in WhiteSpace THEN <<>> ELSE <<"-">>)
            \o replaceRunsFrom(s, i + 1)
       ELSE <<s[i]>> \o replaceRunsFrom(s, i + 1)

\* s.replace(/\s+/g, '-')
replaceWhiteSpaceRuns(s) == replaceRunsFrom(s, 1)

\* a feature of a zoning layer: its geometry is null or not, category is
\* what mapVancouverCategory or inferZoningCategory make of its properties
ZoningFeature(hasGeometry, zoning_distr, category, areaHa) ==
  [hasGeometry |-> hasGeometry, zoning_distr |-> zoning_distr, category |-> category,
   areaHa |-> areaHa]

\* index is smaller than 10 in the model
indexString(index) == <<ToString(index)>>

normalizeVancouverZone(feature, index) ==
  [id |-> <<"v", "a", "n", "-">>
            \o (IF IsNull(feature.zoning_distr) \/ feature.zoning_distr[1] = <<>>
                THEN indexString(index) ELSE feature.zoning_distr[1]),
   municipality |-> <<"V", "a", "n", "c", "o", "u", "v", "e", "r">>,
   zoningCategory |-> feature.category,
   areaHa |-> feature.areaHa]

normalizeVancouverZoning(features) ==
  LET kept == SelectSeq(features, LAMBDA f : f.hasGeometry)
  IN [i \in 1..Len(kept) |-> normalizeVancouverZone(kept[i], i - 1)]

normalizeGenericZoning(features, municipalityName) ==
  LET kept == SelectSeq(features, LAMBDA f : f.hasGeometry)
  IN [i \in 1..Len(kept) |->
        [id |-> toLowerCase(municipalityName) \o <<"-">> \o indexString(i - 1),
         municipality |-> municipalityName,
         zoningCategory |-> kept[i].category,
         areaHa |-> kept[i].areaHa]]

developmentRatios ==
  [residential_single |-> 85, residential_multi |-> 92, commercial |-> 95,
   industrial |-> 88, mixed_use |-> 90, agricultural |-> 15, parkland |-> 5,
   institutional |-> 80, rural |-> 25, undeveloped |-> 2]

densityMap ==
  [residential_single |-> 3500, residential_multi |-> 12000, commercial |-> 2000,
   industrial |-> 500, mixed_use |-> 8000, agricultural |-> 50, parkland |-> 0,
   institutional |-> 1000, rural |-> 100, undeveloped |-> 10]

\* in thousands of dollars per hectare
valueMap ==
  [residential_single |-> 15000, residential_multi |-> 50000, commercial |-> 80000,
   industrial |-> 25000, mixed_use |-> 60000, agricultural |-> 500, parkland |-> 1000,
   institutional |-> 40000, rural |-> 200, undeveloped |-> 100]

\* in tenths of a percent
growthMap ==
  [residential_single |-> 25, residential_multi |-> 80, commercial |-> 50,
   industrial |-> 30, mixed_use |-> 100, agricultural |-> -10, parkland |-> 5,
   institutional |-> 20, rural |-> 10, undeveloped |-> 150]

\* regionId: zone.id
calculateDevelopmentIndicatorsByZoneId(zones) ==
  [i \in 1..Len(zones) |->
     [regionId |-> zones[i].id,
      populationDensity |-> densityMap[zones[i].zoningCategory],
      buildingCoverage |-> developmentRatios[zones[i].zoningCategory],
      infrastructureValue |-> valueMap[zones[i].zoningCategory] * zones[i].areaHa,
      growthRate5yr |-> growthMap[zones[i].zoningCategory]]]

calculateDevelopmentIndicators(zones) ==
  [i \in 1..Len(zones) |->
     [regionId |-> replaceWhiteSpaceRuns(toLowerCase(zones[i].municipality)),
      populationDensity |-> densityMap[zones[i].zoningCategory],
      buildingCoverage |-> developmentRatios[zones[i].zoningCategory],
      infrastructureValue |-> valueMap[zones[i].zoningCategory] * zones[i].areaHa,
      growthRate5yr |-> growthMap[zones[i].zoningCategory]]]

\* zoning_distr of a Vancouver feature: absent, '' or a district code
ZoningDistricts == {Null, Some(<<>>), Some(<<"R", "S", "-", "1">>)}

ZoningFeatures ==
  {ZoningFeature(hasGeometry, district, category, areaHa) :
     hasGeometry \in BOOLEAN, district \in ZoningDistricts,
     category \in {"residential_single", "parkland"}, areaHa \in {0, 12}}

\* features of one layer
MaxFeatures == 2

FeatureLists ==
  UNION {[1..n -> ZoningFeatures] : n \in 0..MaxFeatures}

\* the ids fetchMunicipalityZoning finds in sourceMap, as callers write them
MunicipalityIds ==
  {<<"s", "u", "r", "r", "e", "y">>, <<"S", "u", "r", "r", "e", "y">>,
   <<"B", "U", "R", "N", "A", "B", "Y">>}

\* municipality names of zones that callers build themselves
CallerZoneLists ==
  {<<[id |-> <<"p", "g", "-", "7">>,
      municipality |-> <<"P", "r", "i", "n", "c", "e", " ", "G", "e", "o", "r", "g", "e">>,
      zoningCategory |-> "rural", areaHa |-> 40]>>,
   <<[id |-> <<"p", "m", "-", "1">>,
      municipality |-> <<"P", "o", "r", "t", " ", "\t", "M", "o", "o", "d", "y">>,
      zoningCategory |-> "commercial", areaHa |-> 3],
     [id |-> <<"n", "v", "-", "2">>,
      municipality |-> <<" ", "N", "o", "r", "t", "h", "\n", "V", "a", "n", " ">>,
      zoningCategory |-> "mixed_use", areaHa |-> 8]>>}

ZoneInputs ==
  {normalizeVancouverZoning(features) : features \in FeatureLists}
    \cup {normalizeGenericZoning(features, name) :
            features \in FeatureLists, name \in MunicipalityIds}
    \cup CallerZoneLists

\* ------------------------------------------------------------------------
\* A client of the API routes and services
\* ------------------------------------------------------------------------
ClientInit ==
  client = [listing |-> Null, indicators |-> Null, mutation |-> Null, delivered |-> Null]

\* GET /api/regions
ListRegions ==
  /\ \E type \in TypeFilters :
       client' = [client EXCEPT !.listing =
                    Some([type |-> type, response |-> GETRegions(stateManager, type)])]
  /\ UNCHANGED <<stateManager, now, analystVars, pipeline, crew, fetch>>

\* one call in a behaviour: the service keeps nothing between its calls
CalculateDevelopmentIndicators ==
  /\ IsNull(client.indicators)
  /\ \E zones \in ZoneInputs :
       client' = [client EXCEPT !.indicators =
                    Some([zones |-> zones,
                          returned |-> calculateDevelopmentIndicators(zones)])]
  /\ UNCHANGED <<stateManager, now, analystVars, pipeline, crew, fetch>>

RegionMutators == {"updateRegionRiskScore", "addReport", "addAgentConclusion"}

callRegionMutator(S, method, id, t) ==
  CASE method = "updateRegionRiskScore" -> updateRegionRiskScore(S, id, RiskScoreOf(id, 75), t)
    [] method = "addReport" -> addReport(S, id, [regionId |-> id, kind |-> "given"], t)
    [] method = "addAgentConclusion" ->
         addAgentConclusion(S, id, [regionId |-> id, kind |-> "given"], t)

\* a client calls one of the mutators that take the id of an existing region
CallRegionMutator ==
  /\ \E method \in RegionMutators : \E id \in RegionIds :
       /\ CanWrite \/ ~HasRegion(stateManager, id)
       /\ LET S == Called(stateManager)
              after == callRegionMutator(S, method, id, now)
          IN /\ stateManager' = after
             /\ client' = [client EXCEPT !.mutation =
                             Some([method |-> method, regionId |-> id,
                                   before |-> S, after |-> after])]
  /\ UNCHANGED <<now, analystVars, pipeline, crew, fetch>>

\* a client writes the store's running flag while a run is in progress
SetPipelineRunningDuringRun ==
  /\ pipeline.isRunning
  /\ SetPipelineRunning

\* notifySubscribers inside setRegion: the copy of the state that the
\* callbacks are called with, none without subscribers
deliveredBySetRegion(S, id, partial, t) ==
  IF S.subscribers = <<>> THEN Null
  ELSE Some(setRegion(S, id, partial, t).state)

\* updateRegionRiskScore notifies inside its setRegion call, which comes
\* before updateGlobalRankings()
deliveredByUpdateRegionRiskScore(S, id, score, t) ==
  IF ~HasRegion(S, id) THEN Null
  ELSE LET region == [getRegion(S, id) EXCEPT !.riskScore = Some(score),
                                              !.lastAnalyzed = Some(Date(t))]
       IN deliveredBySetRegion(assignInPlace(S, id, region), id, region, t)

\* a client creates a region while subscribers listen
CreateRegionObserved ==
  /\ CanEmit
  /\ \E id \in RegionIds :
       LET partial == [regionId |-> id, regionName |-> id, regionType |-> "municipality"]
       IN /\ ~HasRegion(stateManager, id)
          /\ stateManager' = setRegion(Called(stateManager), id, partial, now)
          /\ client' = [client EXCEPT
                          !.delivered = deliveredBySetRegion(stateManager, id, partial, now)]
  /\ UNCHANGED <<now, analystVars, pipeline, crew, fetch>>

\* a client writes a score while subscribers listen
UpdateRegionRiskScoreObserved ==
  /\ CanEmit
  /\ \E id \in RegionIds : \E o \in GivenScores :
       /\ stateManager' = updateRegionRiskScore(Called(stateManager), id, RiskScoreOf(id, o), now)
       /\ client' = [client EXCEPT
                       !.delivered = deliveredByUpdateRegionRiskScore(stateManager, id,
                                                                      RiskScoreOf(id, o), now)]
  /\ UNCHANGED <<now, analystVars, pipeline, crew, fetch>>

\* subscribers of the store and the clients whose writes they are told of
NextSubscribers ==
  \/ Subscribe
  \/ CreateRegionObserved
  \/ UpdateRegionRiskScoreObserved

\* the schedule is started once, before the run
StartScheduledExecutionBeforeRun ==
  /\ pipeline.pc = "idle"
  /\ pipeline.schedule.starts = 0
  /\ StartScheduledExecution

\* the first timeout fires while the run waits at an await
FirstTimerFiresDuringRun ==
  /\ pipeline.isRunning
  /\ pipeline.schedule.fired = 0
  /\ TimerFires

\* a runFullPipeline run while the scheduled tasks are set
NextScheduledRun ==
  \/ StartScheduledExecutionBeforeRun
  \/ FirstTimerFiresDuringRun
  \/ StartRun
  \/ CurrentPerimetersSettle
  \/ HistoricalPerimetersSettle
  \/ HotspotsSettle
  \/ ProvincialBoundariesSettle
  \/ MunicipalityZoningSettle

\* runFullPipeline calls, during a run and after it, on a store whose
\* pipelineStatus clients also write
NextRuns ==
  \/ StartRun
  \/ StartRunAgain
  \/ RunWhileRunning
  \/ CurrentPerimetersSettle
  \/ HistoricalPerimetersSettle
  \/ HotspotsSettle
  \/ ProvincialBoundariesSettle
  \/ MunicipalityZoningSettle
  \/ SetPipelineRunningDuringRun

\* clients that create regions and write their scores
NextRankings ==
  \/ CreateRegion
  \/ UpdateRegionHazardData
  \/ UpdateRegionRiskScore

\* pipeline runs and crew runs that follow one another and interleave
NextReports ==
  \/ StartRun
  \/ CurrentPerimetersSettle
  \/ HistoricalPerimetersSettle
  \/ HotspotsSettle
  \/ ProvincialBoundariesSettle
  \/ MunicipalityZoningSettle
  \/ RunCrew
  \/ InsuranceAnalystStep
  \/ RiskAnalysisReturns

\* clients that write regions and list them
NextListing ==
  \/ ClientSetRegion
  \/ ClientUpdateRegionHazardData
  \/ ClientUpdateRegionRiskScore
  \/ ListRegions

\* callers of calculateDevelopmentIndicators
NextZoning ==
  \/ CalculateDevelopmentIndicators

\* clients that call the region mutators of a store with subscribers
NextRegionCalls ==
  \/ ClientSetRegion
  \/ Subscribe
  \/ CallRegionMutator

\* ------------------------------------------------------------------------
\* Specifications
\* ------------------------------------------------------------------------
\* no OPENAI_API_KEY in the environment
CrewInit == crew = NewCrewOrchestrator(FALSE)

Init == StoreInit /\ AnalystInit /\ PipelineInit /\ CrewInit /\ FetchInit /\ ClientInit

\* the environment of the crew holds an OPENAI_API_KEY or not
InitCrew ==
  /\ StoreInit /\ AnalystInit /\ PipelineInit /\ FetchInit /\ ClientInit
  /\ \E llm \in BOOLEAN : crew = NewCrewOrchestrator(llm)

\* the pipeline is constructed with risk scoring as its most frequent task
InitScheduledRun ==
  /\ StoreInit /\ AnalystInit /\ CrewInit /\ FetchInit /\ ClientInit
  /\ pipeline = NewAutomationPipeline([wildfireRefreshInterval |-> 2,
                                       zoningRefreshInterval |-> 3,
                                       riskScoringInterval |-> 1])

\* the pipeline is constructed with one of the configurations
InitSchedule ==
  /\ StoreInit /\ AnalystInit /\ CrewInit /\ FetchInit /\ ClientInit
  /\ \E config \in PipelineConfigs : pipeline = NewAutomationPipeline(config)

\* scheduled execution of the pipeline's tasks, started and stopped by clients
SpecSchedule == InitSchedule /\ [][NextSchedule]_vars

\* crew runs that follow one another on one CrewOrchestrator
SpecCrewRepeated == InitCrew /\ [][NextCrewRepeated]_vars

\* the store under the calls of its clients
Spec == Init /\ [][Next]_vars

\* sequential analyzeRegion invocations on one agent
SpecAnalyst == Init /\ [][NextAnalyst]_vars

\* one runFullPipeline run over a store prepared by clients
SpecPipeline == Init /\ [][NextPipeline]_vars

\* one fetchWFSPaginated call
SpecFetch == Init /\ [][NextFetch]_vars

\* sequential runCrew calls on one orchestrator
SpecCrew == InitCrew /\ [][NextCrew]_vars

\* a store with subscribers that is written, reset and restored
SpecStore == Init /\ [][NextStore]_vars

\* a store with subscribers under every mutator
SpecMutations == Init /\ [][NextMutations]_vars

\* a store whose client holds a snapshot
SpecSnapshot == Init /\ [][NextSnapshot]_vars

\* a store whose event log grows past maxEventHistory
InitEvents ==
  StoreInitNearCapacity /\ AnalystInit /\ PipelineInit /\ CrewInit /\ FetchInit
    /\ ClientInit

SpecEvents == InitEvents /\ [][NextEvents]_vars

\* fetchFromSource calls on one DataFetcher
SpecSource == Init /\ [][NextSource]_vars

\* analyzeRegion invocations on the shared agent that overlap
SpecInterleaved == Init /\ [][NextInterleaved]_vars

\* writes to the store that subscribers are notified of
SpecSubscribers == Init /\ [][NextSubscribers]_vars

\* a run of the pipeline and the scheduled tasks of the same pipeline
SpecScheduledRun == InitScheduledRun /\ [][NextScheduledRun]_vars

\* a paginated fetch whose page fetches all settle
SpecFetchSettling == Init /\ [][NextFetch]_vars /\ WF_vars(PageSettles \/ PageFails)

\* runFullPipeline calls that follow one another and overlap
SpecRuns == Init /\ [][NextRuns]_vars

\* regions that clients create and score in any order
SpecRankings == Init /\ [][NextRankings]_vars

\* pipeline runs and crew runs over one store
SpecReports == Init /\ [][NextReports]_vars

\* a store that clients write and list through GET /api/regions
SpecListing == Init /\ [][NextListing]_vars

\* calls of calculateDevelopmentIndicators
SpecZoning == Init /\ [][NextZoning]_vars

\* a store whose clients call the mutators of existing regions
SpecRegionCalls == Init /\ [][NextRegionCalls]_vars

\* ------------------------------------------------------------------------
\* Claims
\* ------------------------------------------------------------------------
Returned(k) == k \in 1..Len(calls) /\ calls[k].pc = "returned"

\* the conclusions array a caller holds after invocation k returned
ResultConclusions(k) == arrays[calls[k].result]
Regions == stateManager.state.regions

Rankings == stateManager.state.globalRiskRankings

ScoredIds == {Regions[i].regionId : i \in {j \in 1..Len(Regions) : ~IsNull(Regions[j].riskScore)}}

OverallOf(id) == getRegion(stateManager, id).riskScore[1].overallScore

\* C1: after any sequence of store operations the global ranking table lists
\* exactly the regions with a non-null riskScore, in descending order of
\* overallScore, with rank = 1-based position, and as many entries as there
\* are scored regions.
C1_RankingTableExact ==
  /\ Len(Rankings) = Cardinality(ScoredIds)
  /\ {Rankings[i].regionId : i \in 1..Len(Rankings)} = ScoredIds
  /\ \A i \in 1..Len(Rankings) :
       /\ Rankings[i].rank = i
       /\ Rankings[i].regionId \in ScoredIds => Rankings[i].score = OverallOf(Rankings[i].regionId)
  /\ \A i \in 1..Len(Rankings) : \A j \in 1..Len(Rankings) :
       i < j => Rankings[i].score >= Rankings[j].score

\* C2: in sequential analyzeRegion invocations on one agent, the conclusions
\* an invocation returns were all produced during that invocation, and two
\* invocations on the same region return the same number of conclusions.
C2_FreshConclusions ==
  /\ \A k \in 1..Len(calls) : Returned(k) =>
       \A i \in 1..Len(ResultConclusions(k)) : ResultConclusions(k)[i].run = k
  /\ \A k1 \in 1..Len(calls) : \A k2 \in 1..Len(calls) :
       (Returned(k1) /\ Returned(k2) /\ calls[k1].regionId = calls[k2].regionId)
         => Len(ResultConclusions(k1)) = Len(ResultConclusions(k2))

\* region A, then region B, then region A again were analysed and each
\* invocation returned conclusions
C2_Witness ==
  /\ Len(calls) = 3
  /\ \A k \in 1..3 : Returned(k) /\ Len(ResultConclusions(k)) > 0
  /\ calls[1].regionId # calls[2].regionId
  /\ calls[3].regionId = calls[1].regionId

Band(score) ==
  IF score < 20 THEN "low"
  ELSE IF score < 40 THEN "moderate"
  ELSE IF score < 60 THEN "high"
  ELSE IF score < 80 THEN "very_high"
  ELSE "extreme"

\* C3: every risk score analyzeRegion computes from non-negative facts has
\* 0 <= overallScore <= 100 and the category of the band of that score.
C3_ScoreInRangeWithBand ==
  \A k \in 1..Len(calls) :
    calls[k].pc \in {"projections", "report", "commit", "returned"} =>
      /\ calls[k].riskScore.overallScore >= 0
      /\ calls[k].riskScore.overallScore <= 100
      /\ calls[k].riskScore.category = Band(calls[k].riskScore.overallScore)

\* the stage names of the results the run itself recorded
RunStages(stageResults) ==
  LET own == SelectSeq(stageResults, LAMBDA r : r.by = "run")
  IN [i \in 1..Len(own) |-> own[i].stage]

WithoutRiskScoring(stages) == SelectSeq(stages, LAMBDA st : st # "risk_scoring")

AlwaysRunStages ==
  <<"initialization", "wildfire_ingestion", "zoning_ingestion", "data_validation",
    "report_generation", "state_sync", "cleanup">>

AllStages ==
  <<"initialization", "wildfire_ingestion", "zoning_ingestion", "data_validation",
    "risk_scoring", "report_generation", "state_sync", "cleanup">>

PipelineReturned == pipeline.pc = "returned"

ResultOf(stage) ==
  LET i == CHOOSE i \in 1..Len(pipeline.stageResults) : pipeline.stageResults[i].stage = stage
  IN pipeline.stageResults[i]

\* C4: every runFullPipeline run records a StageResult for initialization,
\* wildfire_ingestion, zoning_ingestion, data_validation, report_generation,
\* state_sync and cleanup, in that order, also when an earlier stage threw
\* (its result then has success = FALSE and the later stages are recorded).
C4_SevenStagesInOrder ==
  PipelineReturned =>
    /\ WithoutRiskScoring(RunStages(pipeline.returned[1].stages)) = AlwaysRunStages
    /\ \A i \in 1..Len(pipeline.returned[1].stages) :
         pipeline.returned[1].stages[i].errors # <<>> =>
           ~pipeline.returned[1].stages[i].success

\* data_validation threw on a restored region, wildfire_ingestion failed, and
\* the run still recorded the later stages
C4_Witness ==
  /\ PipelineReturned
  /\ ~ResultOf("wildfire_ingestion").success
  /\ ~ResultOf("data_validation").success
  /\ ResultOf("data_validation").recordsProcessed = 0
  /\ ResultOf("cleanup").success

RanRiskScoring(P) ==
  \E i \in 1..Len(P.stageResults) :
    P.stageResults[i].stage = "risk_scoring" /\ P.stageResults[i].by = "run"

PipelineRegionIds ==
  RegionIds \cup {BC_FIRE_CENTRES[i].id : i \in 1..Len(BC_FIRE_CENTRES)}
            \cup {targetRegions[i] : i \in 1..Len(targetRegions)}

RiskScoreIn(S, id) == IF HasRegion(S, id) THEN getRegion(S, id).riskScore ELSE Null

\* a step of the run that has not executed risk_scoring leaves every risk
\* score and the ranking table as they were
RunStepKeepsScores ==
  (pipeline' # pipeline /\ ~RanRiskScoring(pipeline')) =>
     /\ \A id \in PipelineRegionIds :
          RiskScoreIn(stateManager', id) = RiskScoreIn(stateManager, id)
     /\ getGlobalRankings(stateManager') = getGlobalRankings(stateManager)

\* C5: a run executes risk_scoring, between data_validation and
\* report_generation, iff wildfire_ingestion and zoning_ingestion both
\* reported success; otherwise the run records no risk_scoring result, writes
\* no risk score and leaves the ranking table unchanged.
C5_RiskScoringIffIngestionSucceeded ==
  /\ [](PipelineReturned =>
         /\ RanRiskScoring(pipeline) <=>
              (pipeline.wildfireResult[1].success /\ pipeline.zoningResult[1].success)
         /\ RanRiskScoring(pipeline) => RunStages(pipeline.stageResults) = AllStages
         /\ ~RanRiskScoring(pipeline) => RunStages(pipeline.stageResults) = AlwaysRunStages)
  /\ [][RunStepKeepsScores]_vars

\* zoning_ingestion failed in a run over a store that holds a ranked region
\* and a region with valid data: the run returned without risk_scoring
C5_Witness ==
  /\ PipelineReturned
  /\ pipeline.wildfireResult[1].success
  /\ ~pipeline.zoningResult[1].success
  /\ ~RanRiskScoring(pipeline)
  /\ Len(getGlobalRankings(stateManager)) > 0
  /\ \E i \in 1..Len(getAllRegions(stateManager)) :
       /\ IsValidRegion(getAllRegions(stateManager)[i])
       /\ IsNull(getAllRegions(stateManager)[i].riskScore)

\* C6: the success flag runFullPipeline returns is TRUE iff every StageResult
\* of the run has success = TRUE, and a StageResult has success = TRUE iff
\* its error list is empty, whatever its warnings.
C6_SuccessIffNoStageErrors ==
  PipelineReturned =>
    LET result == pipeline.returned[1]
    IN /\ result.success <=> \A i \in 1..Len(result.stages) : result.stages[i].success
       /\ \A i \in 1..Len(result.stages) :
            result.stages[i].success <=> result.stages[i].errors = <<>>

\* a run returned success although two of its stages recorded warnings
C6_Witness ==
  /\ PipelineReturned
  /\ pipeline.returned[1].success
  /\ ResultOf("wildfire_ingestion").warnings # <<>>
  /\ ResultOf("zoning_ingestion").warnings # <<>>
  /\ RanRiskScoring(pipeline)

\* the first n features of the pages served, in page order
RECURSIVE FirstFeatures(_, _, _)
FirstFeatures(served, page, n) ==
  IF page > Len(served) \/ n = 0 THEN <<>>
  ELSE IF served[page] = 0 THEN FirstFeatures(served, page + 1, n)
  ELSE IF served[page] >= n THEN <<[page |-> page, count |-> n]>>
  ELSE <<[page |-> page, count |-> served[page]]>>
         \o FirstFeatures(served, page + 1, n - served[page])

\* C7: fetchWFSPaginated never holds more than 50,000 accumulated features,
\* and its result is the first 50,000 features of the pages served, in page
\* order: exactly 50,000 when the pages served hold more.
C7_FeatureLimitEnforced ==
  /\ FeatureCount(fetch.allFeatures) <= FeatureLimit
  /\ fetch.pc = "returned" =>
       /\ fetch.result = FirstFeatures(fetch.served, 1, FeatureLimit)
       /\ SumSeq(fetch.served) > FeatureLimit => FeatureCount(fetch.result) = FeatureLimit

\* 45 pages of 1,100 features make 49,500; the 46th page would make 50,600
C7_Witness ==
  /\ fetch.pc = "returned"
  /\ Len(fetch.served) = 46
  /\ SumSeq(SubSeq(fetch.served, 1, 45)) = 49500
  /\ SumSeq(fetch.served) = 50600
  /\ FeatureCount(fetch.result) = 50000

\* the CrewState of the run in progress or of the last run
RunState == crew.state[1]

\* a step in which runCrew is called with regionId
CalledWith(regionId) == crew'.run = crew.run + 1 /\ crew'.state[1].regionId = regionId

\* C8: runCrew called with a region id that is not in the store fails with
\* the not-found error before any stage runs (no stage is entered, no agent
\* logs a message), and leaves the store as it was: regions, scores, reports,
\* conclusions, rankings, version and event log.
C8_UnknownRegionFailsUntouched ==
  [][\A regionId \in RegionIds :
       (CalledWith(regionId) /\ ~HasRegion(stateManager, regionId)) =>
         /\ crew'.state[1].status = "failed"
         /\ crew'.state[1].error = Some(NotFoundMessage(regionId))
         /\ crew'.result = Null
         /\ crew'.started = <<>>
         /\ crew'.state[1].currentAgent = Null
         /\ crew'.state[1].dataAnalysis = Null
         /\ crew'.state[1].riskAnalysis = Null
         /\ crew'.state[1].mitigationStrategy = Null
         /\ crew'.state[1].communicationLog = <<>>
         /\ crew'.dataAnalyst = crew.dataAnalyst
         /\ crew'.mitigationStrategist = crew.mitigationStrategist
         /\ agent' = agent /\ arrays' = arrays /\ calls' = calls
         /\ stateManager' = stateManager]_vars

\* a run on an id the store does not hold failed, while the store holds
\* another region
C8_Witness ==
  /\ crew.run > 0
  /\ crew.threw = "lookup"
  /\ RunState.status = "failed"
  /\ RunState.error = Some(NotFoundMessage(RunState.regionId))
  /\ ~HasRegion(stateManager, RunState.regionId)
  /\ Len(stateManager.state.regions) > 0

StageOrder == <<"data-analyst", "insurance-risk-analyst", "mitigation-strategist">>

IsPrefix(s, t) == Len(s) <= Len(t) /\ s = SubSeq(t, 1, Len(s))

\* the stages a run entered when it threw in stage
StagesUpTo(stage) ==
  CASE stage = "lookup" -> <<>>
    [] stage = "data-analyst" -> SubSeq(StageOrder, 1, 1)
    [] stage = "insurance-risk-analyst" -> SubSeq(StageOrder, 1, 2)
    [] OTHER -> StageOrder

CompletedEvents(S) ==
  Cardinality({i \in 1..Len(S.eventHistory) :
                 S.eventHistory[i].type = "crew_execution_completed"})

\* the step in which a stage of the run throws
StageThrows == crew'.threw # "none" /\ (crew.threw = "none" \/ crew'.run # crew.run)

\* C9: when a crew stage throws, no later stage of the run executes, the run
\* ends with status failed and the error message, no result and no
\* crew_execution_completed event is produced for it, and the step that
\* fails writes nothing to the store, so that what earlier stages wrote
\* stays.
C9_ThrowEndsRunKeepsWrites ==
  /\ [](crew.threw # "none" =>
         /\ crew.pc = "failed"
         /\ RunState.status = "failed"
         /\ RunState.error # Null
         /\ RunState.endTime # Null
         /\ crew.result = Null
         /\ crew.started = StagesUpTo(crew.threw)
         /\ crew.returned = SubSeq(crew.started, 1, Len(crew.started) - 1)
         /\ RunState.mitigationStrategy = Null
         /\ crew.threw \in {"lookup", "data-analyst"} => RunState.dataAnalysis = Null
         /\ crew.threw # "mitigation-strategist" => RunState.riskAnalysis = Null)
  /\ [](CompletedEvents(stateManager) = crew.completedRuns)
  /\ [][StageThrows => stateManager' = stateManager /\ crew'.completedRuns = crew.completedRuns]_vars
  /\ [][(crew.threw # "none" /\ crew'.run = crew.run) => crew' = crew /\ UNCHANGED analystVars]_vars

\* the third stage threw after the second one wrote its score, ranking,
\* report and six conclusions, which the store still holds
C9_Witness ==
  /\ crew.threw = "mitigation-strategist"
  /\ RunState.status = "failed"
  /\ HasRegion(stateManager, RunState.regionId)
  /\ LET region == getRegion(stateManager, RunState.regionId)
     IN /\ region.riskScore = Some(RunState.riskAnalysis[1].riskScore)
        /\ Len(region.reports) = 1
        /\ Len(region.agentConclusions) = 6
        /\ \E i \in 1..Len(getGlobalRankings(stateManager)) :
             getGlobalRankings(stateManager)[i].regionId = RunState.regionId

StageIndex(agentId) == CHOOSE i \in 1..3 : StageOrder[i] = agentId

\* C10: in a crew run on an existing region the stages are entered in the
\* order data-analyst, insurance-risk-analyst, mitigation-strategist, each
\* after the previous one returned; status is completed exactly when the
\* third has returned; and a run whose data analysis returned goes on to the
\* second stage whatever readyForAnalysis says.
C10_StagesInOrderIgnoreReadiness ==
  (crew.run > 0 /\ crew.threw # "lookup") =>
    /\ IsPrefix(crew.started, StageOrder)
    /\ IsPrefix(crew.returned, StageOrder)
    /\ Len(crew.started) >= 1
    /\ Len(crew.started) \in {Len(crew.returned), Len(crew.returned) + 1}
    /\ RunState.dataAnalysis # Null <=> Len(crew.returned) >= 1
    /\ RunState.riskAnalysis # Null <=> Len(crew.returned) >= 2
    /\ RunState.mitigationStrategy # Null <=> Len(crew.returned) = 3
    /\ RunState.status = "completed" <=> crew.returned = StageOrder
    /\ RunState.status = "running" =>
         RunState.currentAgent = Some(crew.started[Len(crew.started)])
    /\ \A i, j \in 1..Len(RunState.communicationLog) :
         i < j => StageIndex(RunState.communicationLog[i].agentId)
                    <= StageIndex(RunState.communicationLog[j].agentId)
    /\ (RunState.dataAnalysis # Null /\ crew.threw = "none") => Len(crew.started) >= 2

\* a run completed all three stages on data that was not ready for analysis
C10_Witness ==
  /\ crew.run > 0
  /\ RunState.status = "completed"
  /\ crew.started = StageOrder
  /\ ~RunState.dataAnalysis[1].readyForAnalysis
  /\ RunState.mitigationStrategy # Null

\* ------------------------------------------------------------------------
\* C11 .. C20: the StateManager seen by its clients
\* ------------------------------------------------------------------------
\* a fresh StateManager that deserialized what S serialized
Restored(S, t) == deserialize(NewStateManager(t), serialize(S))

RankingOrder(S) ==
  [i \in 1..Len(S.state.globalRiskRankings) |-> S.state.globalRiskRankings[i].regionId]

\* C11: deserialize(serialize()) on a fresh StateManager yields an equivalent
\* store: the same region ids, for every region the same risk score, and the
\* same order of the ranking table.
C11_RoundTripEquivalent ==
  LET restored == Restored(stateManager, now)
  IN /\ RegionIdsOf(restored) = RegionIdsOf(stateManager)
     /\ \A id \in RegionIdsOf(stateManager) :
          getRegion(restored, id).riskScore = getRegion(stateManager, id).riskScore
     /\ RankingOrder(restored) = RankingOrder(stateManager)

\* the validation record the claim's formula gives a region at hour t
QualityByFormula(region, t) ==
  LET stale == region.hazardData.lastUpdated.isDate
               /\ t - region.hazardData.lastUpdated.t > maxStaleDataHours
      score == 100 - (IF Len(region.hazardData.historicalFires) = 0 THEN 20 ELSE 0)
                   - (IF stale THEN 10 ELSE 0)
                   - (IF Len(region.zoningData.zones) = 0 THEN 20 ELSE 0)
  IN [isValid |-> score >= minDataQualityScore, dataQualityScore |-> score]

StageResultsOf(stage) == SelectSeq(pipeline.stageResults, LAMBDA r : r.stage = stage)

\* C12: when a pipeline run has returned, data_validation has set every
\* region's dataQuality to the score 100 - 20 (no historical fires) - 10
\* (stale hazard data) - 20 (no zones) with isValid iff the score reaches
\* minDataQualityScore, and risk_scoring, when it ran, scored exactly the
\* regions whose dataQuality is valid and warned once for every other region.
C12_ValidationGatesScoring ==
  pipeline.pc = "returned" =>
    LET regions == getAllRegions(stateManager)
        valid == {i \in 1..Len(regions) : IsValidRegion(regions[i])}
    IN /\ \A i \in 1..Len(regions) :
            regions[i].dataQuality = Some(QualityByFormula(regions[i], now))
       /\ \A k \in 1..Len(StageResultsOf("risk_scoring")) :
            /\ StageResultsOf("risk_scoring")[k].recordsProcessed = Cardinality(valid)
            /\ Len(StageResultsOf("risk_scoring")[k].warnings) = Len(regions) - Cardinality(valid)

\* C13: in every state of the store, the percentages of a region are those of
\* its zones list: the share of developed and of underdeveloped zones, 0 for
\* an empty list, and together at most 100.
C13_PercentagesMatchZones ==
  \A i \in 1..Len(getAllRegions(stateManager)) :
    LET zoning == getAllRegions(stateManager)[i].zoningData
        total == IF Len(zoning.zones) = 0 THEN 1 ELSE Len(zoning.zones)
    IN /\ zoning.developedPercentage * total = 100 * CountStatus(zoning.zones, "developed")
       /\ zoning.underdevelopedPercentage * total
            = 100 * CountStatus(zoning.zones, "underdeveloped")
       /\ zoning.developedPercentage + zoning.underdevelopedPercentage <= 100

\* the log as getRecentEvents(count) hands it out with a count that covers it
EventLog(S) == getRecentEvents(S, maxEventHistory + MaxOverflow)

\* C14: the event log that getRecentEvents and getEventsByType read is
\* append-only and bounded: every emitEvent adds one pending event at the
\* end, the oldest events are dropped past the capacity of 1000, and the log
\* never holds more than 1000 events.
C14_EventLogAppendOnlyBounded ==
  [][stateManager'.eventSeq = stateManager.eventSeq + 1 =>
       LET before == EventLog(stateManager)
           after == EventLog(stateManager')
       IN /\ Len(after) <= maxEventHistory
          /\ after[Len(after)].id = stateManager'.eventSeq
          /\ after[Len(after)].status = "pending"
          /\ SubSeq(after, 1, Len(after) - 1)
               = IF Len(before) < maxEventHistory THEN before ELSE Tail(before)
          /\ Len(getEventsByType(stateManager', "agent_execution_started"))
               + Len(getEventsByType(stateManager', "agent_execution_completed"))
               = Len(after)]_vars

\* C15: what getSnapshot returned is independent of the store: no later
\* operation of the store changes anything the snapshot shows, and a change
\* made to the snapshot changes nothing in the store.
C15_SnapshotIndependent ==
  [][(~IsNull(stateManager.handedOut) /\ ~IsNull(stateManager'.handedOut)) =>
       IF ChangeSnapshot
       THEN stateManager'.state = stateManager.state
       ELSE stateManager'.handedOut[1].seen = stateManager.handedOut[1].seen]_vars

\* the record of a region that no write has touched
DefaultRegion(id, t) == createDefaultRegionState(id, [regionId |-> id], t)

\* C16: each setRegion(id, partial) merges the partial into the existing
\* record, or into the default record of an unknown id, leaves every other
\* region alone, increases the version by exactly 1, appends exactly one
\* pending state_updated event for id, and calls the callback of every
\* current subscriber exactly once.
C16_SetRegionWritesAndNotifies ==
  [][\A id \in RegionIds : \A partial \in ClientPartials(id) :
       stateManager' = setRegion(Called(stateManager), id, partial, now) =>
         LET base == IF HasRegion(stateManager, id) THEN getRegion(stateManager, id)
                     ELSE DefaultRegion(id, now)
         IN /\ RegionIdsOf(stateManager') = RegionIdsOf(stateManager) \cup {id}
            /\ \A f \in RegionFields :
                 getRegion(stateManager', id)[f]
                   = IF f \in DOMAIN partial THEN partial[f] ELSE base[f]
            /\ \A other \in RegionIdsOf(stateManager) \ {id} :
                 getRegion(stateManager', other) = getRegion(stateManager, other)
            /\ stateManager'.state.version = stateManager.state.version + 1
            /\ stateManager'.state.events
                 = Append(stateManager.state.events,
                          [id |-> stateManager.eventSeq + 1, type |-> "state_updated",
                           regionId |-> id, status |-> "pending"])
            /\ stateManager'.notified = stateManager.subscribers]_vars

\* two setRegion calls on one region, the second one heard by two subscribers
C16_Witness ==
  /\ Len(stateManager.subscribers) = 2
  /\ stateManager.notified = stateManager.subscribers
  /\ stateManager.state.version = 3
  /\ Len(stateManager.state.events) = 2
  /\ HasRegion(stateManager, "kamloops")
  /\ getRegion(stateManager, "kamloops").regionName = "Named"
  /\ getRegion(stateManager, "kamloops").regionType = "fire_centre"
  /\ stateManager.state.events[2].type = "state_updated"

\* C17: after reset() the store is that of a new StateManager: no regions, no
\* events in the live log and none in the capped event history, no
\* constraints, no plan variants, an empty ranking table, a pipeline that is
\* not running, and the initial version.
C17_ResetRestoresInitialStore ==
  [][ClientReset =>
       /\ stateManager'.state.regions = <<>>
       /\ stateManager'.state.events = <<>>
       /\ stateManager'.eventHistory = NewStateManager(now).eventHistory
       /\ stateManager'.state.constraints = <<>>
       /\ stateManager'.state.planVariants = <<>>
       /\ stateManager'.state.globalRiskRankings = <<>>
       /\ ~stateManager'.state.pipelineStatus.isRunning
       /\ stateManager'.state.version = NewStateManager(now).state.version]_vars

\* the regions a step adds to the store
CreatedRegions == RegionIdsOf(stateManager') \ RegionIdsOf(stateManager)

\* a record as the first write of an unknown id leaves it: the written part
\* aside, no fires, statistics or zones, zero percentages, and no riskScore,
\* dataQuality or lastAnalyzed
CreatedFromDefault(id) ==
  LET region == getRegion(stateManager', id)
  IN /\ ClientSetRegion \/ ClientUpdateRegionHazardData \/ ClientUpdateRegionZoningData
     /\ ClientUpdateRegionHazardData
          \/ /\ region.hazardData.historicalFires = <<>>
             /\ region.hazardData.fireStatistics = <<>>
     /\ ClientUpdateRegionZoningData
          \/ /\ region.zoningData.zones = <<>>
             /\ region.zoningData.developedPercentage = 0
             /\ region.zoningData.underdevelopedPercentage = 0
     /\ region.riskScore = Null
     /\ region.dataQuality = Null
     /\ region.lastAnalyzed = Null
     /\ region.reports = <<>>
     /\ region.agentConclusions = <<>>

\* C18 as stated: the record of an unknown id is created by its first
\* setRegion, updateRegionHazardData or updateRegionZoningData from the
\* default record, and no operation other than reset removes a region id.
C18_RegionsLostOnlyByReset ==
  [][/\ Deserialize \/ \A id \in CreatedRegions : CreatedFromDefault(id)
     /\ ClientReset \/ RegionIdsOf(stateManager) \subseteq RegionIdsOf(stateManager')]_vars

\* C18, amended: the record of an unknown id is created by its first
\* setRegion, updateRegionHazardData or updateRegionZoningData from the
\* default record, and no operation other than reset and deserialize removes
\* a region id.
C18_RegionsLostOnlyByResetOrDeserialize ==
  [][/\ Deserialize \/ \A id \in CreatedRegions : CreatedFromDefault(id)
     /\ ClientReset \/ Deserialize
          \/ RegionIdsOf(stateManager) \subseteq RegionIdsOf(stateManager')]_vars

\* updateRegionHazardData created kamloops, updateRegionZoningData vancouver
C18_Witness ==
  /\ RegionIdsOf(stateManager) = {"kamloops", "vancouver"}
  /\ stateManager.state.version = 3
  /\ Len(getRegion(stateManager, "kamloops").hazardData.historicalFires) = 1
  /\ getRegion(stateManager, "kamloops").zoningData.zones = <<>>
  /\ Len(getRegion(stateManager, "vancouver").zoningData.zones) = 2
  /\ getRegion(stateManager, "vancouver").hazardData.historicalFires = <<>>
  /\ IsNull(getRegion(stateManager, "vancouver").riskScore)

\* C19 as stated: the version never decreases, whatever the operation
\* (region writes, score updates, reset, deserialize), and it increases with
\* every region write.
C19_VersionNeverDecreases ==
  [][/\ stateManager'.state.version >= stateManager.state.version
     /\ stateManager'.eventSeq > stateManager.eventSeq
          => stateManager'.state.version > stateManager.state.version]_vars

\* C19, amended: the version never decreases under an operation other than
\* reset and deserialize, and it increases, by one, with every region write;
\* reset sets it to the initial version and deserialize to the persisted one.
C19_VersionDecreasesOnlyByResetOrDeserialize ==
  [][/\ ClientReset \/ Deserialize
          \/ stateManager'.state.version >= stateManager.state.version
     /\ stateManager'.eventSeq > stateManager.eventSeq
          => stateManager'.state.version = stateManager.state.version + 1
     /\ ClientReset => stateManager'.state.version = 1
     /\ Deserialize => \E json \in SavedStates : stateManager'.state.version = json.version]_vars

\* two region writes with a reset or a deserialize in between or behind
C19_Witness ==
  /\ stateManager.eventSeq = 2
  /\ stateManager.state.version = 2
  /\ Len(getAllRegions(stateManager)) = 1

\* C20: the subscribers are notified on every mutation of the shared state: a
\* call that changes regions, rankings, events or their status, constraints,
\* plan variants or the pipeline status, or that deserializes or resets,
\* calls the callback of every subscriber.
C20_EveryMutationNotifies ==
  [][stateManager'.state # stateManager.state
       => stateManager'.notified = stateManager'.subscribers]_vars

\* ------------------------------------------------------------------------
\* C21 .. C30
\* ------------------------------------------------------------------------
\* the score the crew's Risk Scorer (InsuranceRiskAnalystAgent.analyzeRegion)
\* computes from the facts of a stored region
AnalystScoreOf(region) ==
  calculateRiskScore(region.regionId,
                     assessWildfireExposure(region.hazardData.historicalFires),
                     analyzeHistoricalLosses(region.hazardData.fireStatistics),
                     evaluateVulnerability(region.zoningData.zones))

\* C21: the risk_scoring stage of the pipeline and the Risk Scorer of the crew
\* run the same scoring logic: when a run that executed risk_scoring has
\* returned, every region it scored holds the overallScore and the category
\* the Risk Scorer computes from the same fires, statistics and zones.
C21_PipelineScoresAsRiskScorer ==
  (pipeline.pc = "returned" /\ RanRiskScoring(pipeline)) =>
    \A i \in 1..Len(getAllRegions(stateManager)) :
      LET region == getAllRegions(stateManager)[i]
      IN IsValidRegion(region) =>
           /\ ~IsNull(region.riskScore)
           /\ region.riskScore[1].overallScore = AnalystScoreOf(region).overallScore
           /\ region.riskScore[1].category = AnalystScoreOf(region).category

\* the fetches of the ingestion collaborators, as the stages name them in
\* their messages
CollaboratorFetches ==
  {"Current perimeters", "Historical perimeters", "Active hotspots",
   "Provincial boundaries", "Zoning"}

IngestionResults ==
  SelectSeq(pipeline.stageResults,
            LAMBDA r : r.stage \in {"wildfire_ingestion", "zoning_ingestion"})

PrimaryFetches == {"Current perimeters", "Historical perimeters", "Provincial boundaries"}

\* the fetches whose failure the stages push onto warnings
AuxiliaryFetches == {"Active hotspots", "Zoning"}

ReturnedWithoutFacts ==
  {k \in 1..Len(calls) :
     /\ calls[k].pc = "returned"
     /\ calls[k].region.hazardData.historicalFires = <<>>
     /\ calls[k].region.hazardData.fireStatistics = <<>>
     /\ calls[k].region.zoningData.zones = <<>>}

ComponentsOfNoFacts(k) ==
  /\ calls[k].exposure.exposureScore = 10
  /\ calls[k].loss.lossScore = 15
  /\ calls[k].vulnerability.vulnerabilityScore = 20
  /\ calls[k].riskScore.components.climateProjection = 60

\* C23: for a region with zero fires, zero yearly statistics and zero zones
\* analyzeRegion yields exposure score 10, loss score 15, vulnerability score
\* 20, climate score 60 and an overallScore of 15.
C23_NoFactsScoreIs15 ==
  \A k \in ReturnedWithoutFacts :
    ComponentsOfNoFacts(k) /\ calls[k].riskScore.overallScore = 15

\* C23 (amended): with the same component scores the overallScore is
\* round(10 * 0.35 + 15 * 0.30 + 20 * 0.25 + 60 * 0.10) = 19, category low.
C23_NoFactsScoreIs19 ==
  \A k \in ReturnedWithoutFacts :
    /\ ComponentsOfNoFacts(k)
    /\ calls[k].riskScore.overallScore = 19
    /\ calls[k].riskScore.category = "low"

C23_Witness == ReturnedWithoutFacts # {}

Priorities == {"critical", "high", "medium", "low"}

Categories == {"prevention", "preparedness", "mitigation", "insurance"}

RECURSIVE TotalOf(_, _)
TotalOf(actions, field) ==
  IF actions = <<>> THEN 0
  ELSE (IF field = "cost" THEN Head(actions).estimatedCost
        ELSE Head(actions).expectedRiskReduction) + TotalOf(Tail(actions), field)

\* C24: the output of the Mitigation Strategist of every completed crew run has
\* expectedRiskReduction = min(30, sum of the actions' expectedRiskReduction),
\* at most 30, totalEstimatedCost = sum of the actions' estimatedCost, and
\* every action has a priority among critical, high, medium, low and a
\* category among prevention, preparedness, mitigation, insurance.
C24_StrategistOutputWellFormed ==
  crew.pc = "completed" =>
    LET output == crew.result[1].mitigationStrategy
        sum == TotalOf(output.actions, "reduction")
    IN /\ output.expectedRiskReduction = (IF sum < 30 THEN sum ELSE 30)
       /\ output.expectedRiskReduction <= 30
       /\ output.totalEstimatedCost = TotalOf(output.actions, "cost")
       /\ \A i \in 1..Len(output.actions) :
            /\ output.actions[i].priority \in Priorities
            /\ output.actions[i].category \in Categories

\* C25: the communicationLog every completed crew run returns holds the
\* messages of that run only: one of data-analyst, one of
\* insurance-risk-analyst and one of mitigation-strategist, in this order,
\* also for the second and later runs on the same CrewOrchestrator.
C25_CommunicationLogOfThisRun ==
  crew.pc = "completed" =>
    LET log == crew.result[1].communicationLog
    IN /\ Len(log) = 3
       /\ log[1].agentId = "data-analyst" /\ log[1].run = crew.run
       /\ log[2].agentId = "insurance-risk-analyst" /\ log[2].run = crew.call
       /\ log[3].agentId = "mitigation-strategist" /\ log[3].run = crew.run

\* C26: every conclusion analyzeRegion(R) returns, and every conclusion it
\* appends to region R of the store, carries regionId = R.
C26_ConclusionsNameTheirRegion ==
  /\ \A k \in 1..Len(calls) :
       calls[k].pc = "returned" =>
         \A i \in 1..Len(arrays[calls[k].result]) :
           arrays[calls[k].result][i].regionId = calls[k].regionId
  /\ \A r \in 1..Len(getAllRegions(stateManager)) :
       LET region == getAllRegions(stateManager)[r]
       IN \A i \in 1..Len(region.agentConclusions) :
            region.agentConclusions[i].regionId = region.regionId

\* C27: once stopScheduledExecution has returned, and until
\* startScheduledExecution is called again, no scheduled task runs again and
\* the set of scheduled tasks stays empty, also when a task was executing at
\* the stop and when startScheduledExecution had been called more than once.
C27_StopStopsScheduledExecution ==
  [][pipeline'.schedule.stopped =>
       /\ pipeline'.schedule.scheduledTasks = {}
       /\ (pipeline.schedule.stopped =>
             pipeline'.schedule.fired = pipeline.schedule.fired)]_vars

\* C28: for every store state and every value of the type filter, the body
\* GET /api/regions returns has counts.total equal to the length of its
\* regions array.
C28_TotalIsLengthOfRegions ==
  \A k \in 1..Len(client.listing) :
    LET response == client.listing[k].response
    IN response.counts.total = Len(response.regions)

\* a listing of the municipalities of a store that also holds a fire centre,
\* with a municipality of the store in it
C28_Witness ==
  /\ client.listing # Null
  /\ client.listing[1].type = Some("municipality")
  /\ client.listing[1].response = GETRegions(stateManager, Some("municipality"))
  /\ \E k \in 1..Len(stateManager.state.regions) :
       stateManager.state.regions[k].regionType = "fire_centre"
  /\ LET regions == client.listing[1].response.regions
     IN /\ \E i \in 1..Len(regions) : regions[i].hasData
        /\ \A i \in 1..Len(regions) : regions[i].type # "fire_centre"

\* the municipality name in lower case, each run of white space one hyphen
SlugOf(name) ==
  LET lower(c) == IF \E k \in 1..26 : UpperCase[k] = c
                  THEN LowerCase[CHOOSE k \in 1..26 : UpperCase[k] = c] ELSE c
      marked == [i \in 1..Len(name) |->
                   [c |-> lower(name[i]), space |-> name[i] \in WhiteSpace,
                    first |-> i = 1 \/ name[i - 1] \notin WhiteSpace]]
      kept == SelectSeq(marked, LAMBDA m : ~m.space \/ m.first)
  IN [j \in 1..Len(kept) |-> IF kept[j].space THEN "-" ELSE kept[j].c]

\* C29: calculateDevelopmentIndicators returns one indicator per input zone,
\* in the order of the zones, whose regionId is the zone's municipality name
\* in lower case with every run of white space replaced by one hyphen, and
\* is not the zone's id.
C29_IndicatorsNameTheMunicipality ==
  \A k \in 1..Len(client.indicators) :
    LET zones == client.indicators[k].zones
        returned == client.indicators[k].returned
    IN /\ Len(returned) = Len(zones)
       /\ \A i \in 1..Len(zones) :
            /\ returned[i].regionId = SlugOf(zones[i].municipality)
            /\ returned[i].regionId # zones[i].id
            /\ returned[i].populationDensity = densityMap[zones[i].zoningCategory]
            /\ returned[i].infrastructureValue
                 = valueMap[zones[i].zoningCategory] * zones[i].areaHa

\* two zones of different municipalities whose names hold runs of white space
C29_Witness ==
  /\ client.indicators # Null
  /\ Len(client.indicators[1].zones) = 2
  /\ client.indicators[1].returned[1].regionId
       = <<"p", "o", "r", "t", "-", "m", "o", "o", "d", "y">>
  /\ client.indicators[1].returned[2].regionId
       = <<"-", "n", "o", "r", "t", "h", "-", "v", "a", "n", "-">>

\* C30: updateRegionRiskScore, addReport and addAgentConclusion called with
\* a region id that is not in the store leave the whole store as it was: no
\* record is created, version and event log are unchanged, the ranking table
\* is the one of before and no subscriber is notified.
C30_UnknownRegionLeavesStoreUnchanged ==
  \A k \in 1..Len(client.mutation) :
    LET call == client.mutation[k]
    IN ~HasRegion(call.before, call.regionId) =>
         /\ call.after = call.before
         /\ ~HasRegion(call.after, call.regionId)
         /\ call.after.state.version = call.before.state.version
         /\ call.after.eventHistory = call.before.eventHistory
         /\ call.after.state.globalRiskRankings = call.before.state.globalRiskRankings
         /\ call.after.notified = <<>>

\* updateRegionRiskScore for an id the store lacks, on a store with another
\* region and a subscriber
C30_Witness ==
  /\ client.mutation # Null
  /\ client.mutation[1].method = "updateRegionRiskScore"
  /\ ~HasRegion(client.mutation[1].before, client.mutation[1].regionId)
  /\ Len(client.mutation[1].before.state.regions) > 0
  /\ Len(client.mutation[1].before.subscribers) > 0
  /\ stateManager = client.mutation[1].after

\* ------------------------------------------------------------------------
\* C31 .. C40
\* ------------------------------------------------------------------------
GivenEntry(id) == [regionId |-> id, kind |-> "given"]

\* C31: for an existing region addReport and addAgentConclusion extend the
\* region's reports or agentConclusions by exactly one element at the end
\* and keep every earlier element in its position; in every step of pipeline
\* runs and crew runs each region stays in the store and its reports and
\* agentConclusions keep every earlier entry in its position.
C31_ListsAreAppendOnly ==
  /\ [](\A id \in RegionIdsOf(stateManager) :
          LET region == getRegion(stateManager, id)
              reported == getRegion(addReport(stateManager, id, GivenEntry(id), now), id)
              concluded ==
                getRegion(addAgentConclusion(stateManager, id, GivenEntry(id), now), id)
          IN /\ reported.reports = Append(region.reports, GivenEntry(id))
             /\ reported.agentConclusions = region.agentConclusions
             /\ concluded.agentConclusions = Append(region.agentConclusions, GivenEntry(id))
             /\ concluded.reports = region.reports)
  /\ [][\A id \in RegionIdsOf(stateManager) :
          /\ HasRegion(stateManager', id)
          /\ IsPrefix(getRegion(stateManager, id).reports,
                        getRegion(stateManager', id).reports)
          /\ IsPrefix(getRegion(stateManager, id).agentConclusions,
                        getRegion(stateManager', id).agentConclusions)]_vars

\* a region that a crew run and a pipeline run have both reported on
C31_Witness ==
  /\ pipeline.pc = "returned"
  /\ crew.pc = "completed"
  /\ \E id \in RegionIdsOf(stateManager) :
       /\ Len(getRegion(stateManager, id).reports) >= 2
       /\ Len(getRegion(stateManager, id).agentConclusions) >= 1

\* C32: regions that the global ranking table lists with the same score
\* appear in it in the order in which their records were first created in
\* the store, whatever the order in which their scores were written.
C32_TiesInCreationOrder ==
  LET rankings == getGlobalRankings(stateManager)
  IN \A i \in 1..Len(rankings) : \A j \in 1..Len(rankings) :
       (/\ i < j
        /\ rankings[i].score = rankings[j].score
        /\ HasRegion(stateManager, rankings[i].regionId)
        /\ HasRegion(stateManager, rankings[j].regionId))
       => RegionIndex(stateManager, rankings[i].regionId)
            < RegionIndex(stateManager, rankings[j].regionId)

\* two regions tie, and the one created first had its score written last
C32_Witness ==
  LET rankings == getGlobalRankings(stateManager)
  IN /\ Len(rankings) = 2
     /\ rankings[1].score = rankings[2].score
     /\ Len(getAllRegions(stateManager)) = 2
     /\ getAllRegions(stateManager)[1].regionId = rankings[1].regionId
     /\ getAllRegions(stateManager)[1].riskScore # Null
     /\ getAllRegions(stateManager)[1].riskScore[1].overallScore = rankings[1].score
     /\ getAllRegions(stateManager)[2].riskScore # Null
     /\ getAllRegions(stateManager)[2].riskScore[1].overallScore = rankings[2].score
     /\ stateManager.eventHistory # <<>>
     /\ stateManager.eventHistory[Len(stateManager.eventHistory)].regionId
          = rankings[1].regionId

\* fetchWithTimeout calls of the fetchFromSource call that rejected
FailedAttempts(call) ==
  Cardinality({k \in 1..Len(call.outcomes) : call.outcomes[k] # "resolved"})

\* C33: a fetchFromSource call without a cache hit makes at most
\* max(1, retries) fetch attempts and returns at the first that succeeds; it
\* sleeps 2^k seconds after the failed attempt k (counted from 0) unless that
\* was the last attempt allowed; when every attempt failed it throws an error
\* that carries the last failure; and the cache entry is set only by an
\* attempt that succeeded.
C33_RetriesWithBackoff ==
  /\ [](LET call == fetch.source
            made == Len(call.outcomes)
            allowed == IF call.retries > 1 THEN call.retries ELSE 1
        IN /\ made <= allowed
           /\ \A k \in 1..(made - 1) : call.outcomes[k] # "resolved"
           /\ (made > 0 /\ call.outcomes[made] = "resolved") =>
                /\ call.pc = "returned"
                /\ ~call.result[1].fromCache
                /\ call.result[1].attempts = Some(made)
           /\ (call.pc = "returned" /\ ~call.result[1].fromCache) =>
                made > 0 /\ call.outcomes[made] = "resolved"
           /\ \A k \in 1..Len(call.slept) : call.slept[k] = (2 ^ (k - 1)) * 1000
           /\ Len(call.slept) = IF FailedAttempts(call) = allowed THEN allowed - 1
                                ELSE FailedAttempts(call)
           /\ call.pc = "threw" =>
                /\ FailedAttempts(call) = made
                /\ made = allowed \/ call.retries < 0
                /\ made > 0 => call.error[1].cause = Some(call.outcomes[made])
           /\ (made = allowed /\ FailedAttempts(call) = made) => call.pc = "threw"
           /\ call.wrote # <<>> =>
                /\ Len(call.wrote) = 1
                /\ call.outcomes[made] = "resolved"
                /\ call.wrote[1].data = call.result[1].data)
  /\ [][(fetch'.dataCache # fetch.dataCache /\ fetch'.dataCache # Null) =>
          /\ fetch.source.pc = "fetching"
          /\ fetch'.source.outcomes = Append(fetch.source.outcomes, "resolved")]_vars

\* a call with the default of three retries whose attempts all failed
C33_Witness ==
  /\ fetch.source.pc = "threw"
  /\ fetch.source.retries = DefaultRetries
  /\ fetch.source.cache
  /\ Len(fetch.source.outcomes) = 3
  /\ fetch.source.slept = <<1000, 2000>>
  /\ fetch.dataCache = Null

\* C34: a runFullPipeline call made while a run is in progress throws
\* 'Pipeline is already running' and changes neither the stage results nor
\* the running flags, and the pipeline's isRunning is set for as long as a run
\* is in progress, so that no second run starts; at the return of every run
\* the pipeline's isRunning and the store's pipelineStatus.isRunning are both
\* false, and isRunning stays false until the next run starts.
C34_OneRunAtATime ==
  /\ [](/\ pipeline.pc \notin {"idle", "returned"} => pipeline.isRunning
        /\ pipeline.pc \in {"idle", "returned"} => ~pipeline.isRunning)
  /\ [][/\ pipeline'.rejected # pipeline.rejected =>
             /\ pipeline.isRunning
             /\ pipeline'.lastError = Some("Pipeline is already running")
             /\ pipeline'.stageResults = pipeline.stageResults
             /\ pipeline'.isRunning = pipeline.isRunning
             /\ pipeline'.pc = pipeline.pc
             /\ stateManager' = stateManager
        /\ (pipeline'.pc = "returned" /\ pipeline.pc # "returned") =>
             /\ ~pipeline'.isRunning
             /\ ~stateManager'.state.pipelineStatus.isRunning
        /\ (pipeline'.isRunning /\ ~pipeline.isRunning) =>
             pipeline.pc \in {"idle", "returned"}]_vars

\* a second run has returned after a call was rejected during a run
C34_Witness ==
  /\ pipeline.pc = "returned"
  /\ pipeline.laterRuns = 1
  /\ pipeline.rejected = 1
  /\ ~pipeline.isRunning
  /\ ~stateManager.state.pipelineStatus.isRunning
  /\ \E i \in 1..Len(pipeline.returned[1].stages) : ~pipeline.returned[1].stages[i].success

\* the conclusions invocation k produced: one for each of its six tasks
OwnConclusions(cs, k) ==
  /\ Len(cs) = Len(AnalystTasks)
  /\ \A i \in 1..Len(cs) : cs[i].run = k /\ cs[i].reasoning = AnalystTasks[i]

\* C35: when analyzeRegion invocations on the shared agent interleave at their
\* awaits, each invocation returns exactly the conclusions it produced, and
\* appends exactly those to its own region in the store.
C35_InterleavedInvocationsKeepTheirConclusions ==
  /\ [](\A k \in 1..Len(calls) : Returned(k) => OwnConclusions(ResultConclusions(k), k))
  /\ [][\A k \in 1..Len(calls) :
          (calls[k].pc = "commit" /\ calls'[k].pc = "returned") =>
            LET id == calls[k].regionId
                before == getRegion(stateManager, id).agentConclusions
                after == getRegion(stateManager', id).agentConclusions
            IN /\ IsPrefix(before, after)
               /\ OwnConclusions(SubSeq(after, Len(before) + 1, Len(after)), k)
               /\ \A other \in RegionIds \ {id} :
                    HasRegion(stateManager, other) =>
                      getRegion(stateManager', other).agentConclusions
                        = getRegion(stateManager, other).agentConclusions]_vars

\* the ranking invariant of a state: the table lists exactly the scored
\* regions, in descending order of score, with their scores
RankingInvariantOf(state) ==
  LET table == state.globalRiskRankings
      scored == SelectScored(state.regions)
  IN /\ Len(table) = Len(scored)
     /\ {table[i].regionId : i \in 1..Len(table)} = {scored[i].regionId : i \in 1..Len(scored)}
     /\ \A i \in 1..Len(table) : \A j \in 1..Len(scored) :
          table[i].regionId = scored[j].regionId => table[i].score = ScoreOrZero(scored[j])
     /\ \A i \in 1..Len(table) : \A j \in 1..Len(table) :
          i < j => table[i].score >= table[j].score

\* C36: every snapshot delivered to a subscriber satisfies the ranking
\* invariant, the one delivered during updateRegionRiskScore included.
C36_DeliveredSnapshotsAreRanked ==
  ~IsNull(client.delivered) => RankingInvariantOf(client.delivered[1])

\* C37: the stages list a runFullPipeline run returns holds only results of
\* stages that run executed, at most one for each stage name, also when
\* scheduled tasks fire while the run waits at an await.
C37_ReturnedStagesAreOfTheRun ==
  PipelineReturned =>
    LET stages == pipeline.returned[1].stages
    IN /\ \A i \in 1..Len(stages) : stages[i].by = "run"
       /\ \A i \in 1..Len(stages) : \A j \in 1..Len(stages) :
            stages[i].stage = stages[j].stage => i = j

\* the statistics are not empty and every year has estimatedCost 0
AllCostsZero(statistics) ==
  /\ Len(statistics) > 0
  /\ \A i \in 1..Len(statistics) : statistics[i].estimatedCost = 0

\* C38: for a region whose yearly statistics are not empty and all have
\* estimatedCost 0, analyzeRegion computes a loss score that is a number in
\* 0..100 and an overallScore in 0..100 that has the category of its band.
C38_ZeroCostsAreScored ==
  \A k \in 1..Len(calls) :
    (/\ calls[k].pc \in {"projections", "report", "commit", "returned"}
     /\ AllCostsZero(calls[k].region.hazardData.fireStatistics)) =>
      /\ ~IsNaN(calls[k].loss.lossScore)
      /\ calls[k].loss.lossScore \in 0..100
      /\ ~IsNaN(calls[k].riskScore.overallScore)
      /\ calls[k].riskScore.overallScore \in 0..100
      /\ calls[k].riskScore.category = Band(calls[k].riskScore.overallScore)

\* Math.ceil(a / b)
CeilDiv(a, b) == (a + b - 1) \div b

\* page i of the pages served is empty, shorter than the page size, or brings
\* the total above the limit
StopsAt(i) ==
  \/ fetch.served[i] < fetch.pageSize
  \/ SumSeq(SubSeq(fetch.served, 1, i)) > FeatureLimit

\* C39: fetchWFSPaginated ends when its page fetches settle; after the first
\* page that is empty, shorter than pageSize or would bring the total above
\* 50,000 it requests nothing more and returns; it requests at most
\* ceil(50,000 / pageSize) + 1 pages, with the start indexes 0, pageSize,
\* 2 * pageSize, ... in this order.
C39_PaginationEnds ==
  /\ [](fetch.pc # "idle" =>
          /\ Len(fetch.requested) <= CeilDiv(FeatureLimit, fetch.pageSize) + 1
          /\ \A i \in 1..Len(fetch.requested) : fetch.requested[i] = (i - 1) * fetch.pageSize
          /\ \A i \in 1..Len(fetch.served) :
               StopsAt(i) => /\ i = Len(fetch.served)
                             /\ Len(fetch.requested) = i
                             /\ fetch.pc = "returned")
  /\ (fetch.pc = "waiting" ~> fetch.pc \in {"returned", "failed"})

\* with the default page size, fifty full pages and a fifty-first one that
\* would bring the total above the limit were requested
C39_Witness ==
  /\ fetch.pc = "returned"
  /\ fetch.pageSize = DefaultPageSize
  /\ Len(fetch.requested) = CeilDiv(FeatureLimit, DefaultPageSize) + 1
  /\ fetch.requested[51] = 50000
  /\ fetch.served[51] > 0

\* C40: the report analyzeRegion returns holds in rankings the region's entry
\* of the global table as it is once the new score is written: one entry,
\* whose score is the overallScore of the report's riskScore, also on the
\* first analysis of the region.
C40_ReportRanksItsOwnScore ==
  \A k \in 1..Len(calls) :
    Returned(k) =>
      /\ Len(calls[k].report.rankings) = 1
      /\ calls[k].report.rankings[1].regionId = calls[k].regionId
      /\ calls[k].report.rankings[1].score = calls[k].report.riskScore.overallScore

====
